---- MODULE Spec2Model ----
(***************************************************************************)
(* State-machine model of the FDIC CSV-to-RDF converters:                  *)
(*   - FDICRDFGenerator        (fdic_omg/core.py, graph generator)         *)
(*   - SimpleFDICRDFGenerator  (fdic_omg/core_simple.py)                   *)
(*   - CSV2RDF                 (fdic_omg/csv2rdf.py, chunked converter)    *)
(*   - process_fdic_omg_job    (fdic_omg/job.py, job adapter)              *)
(*                                                                         *)
(* A CSV file is modelled by what csv.reader yields for it: a header       *)
(* record and a sequence of non-empty data records (csv.DictReader skips   *)
(* empty records).  A field value is a sequence of characters, so that     *)
(* str.strip(), int() and float() are computed character by character.     *)
(* An RDF graph is a set of triples [s, p, o] over nodes of one record     *)
(* shape.                                                                  *)
(***************************************************************************)
EXTENDS Integers, Sequences, FiniteSets, TLC

----------------------------------------------------------------------------
(* Bounds of the model *)

\* most data records in a CSV file of the conversion specification
MaxRows == 2
\* most data records in a CSV file of the viewer specification
MaxViewerRows == 4
\* largest rows_per_page passed to generate_viewer_output
MaxPageSize == 3
\* largest rows_per_chunk passed to CSV2RDF.process_csv
MaxChunkSize == 2
\* most entries of input_files passed to the job adapter
MaxInputFiles == 2
MaxCalls == 2

----------------------------------------------------------------------------
(* Characters and field values *)

Whitespace == {" "}
Digits == {"0", "1", "2", "3", "4", "5", "6", "7", "8", "9"}

DigitVal(c) ==
    CASE c = "0" -> 0 [] c = "1" -> 1 [] c = "2" -> 2 [] c = "3" -> 3
      [] c = "4" -> 4 [] c = "5" -> 5 [] c = "6" -> 6 [] c = "7" -> 7
      [] c = "8" -> 8 [] c = "9" -> 9 [] OTHER -> 0

RECURSIVE LStrip(_)
LStrip(s) ==
    IF s # <<>> /\ Head(s) \in Whitespace THEN LStrip(Tail(s)) ELSE s

RECURSIVE RStrip(_)
RStrip(s) ==
    IF s # <<>> /\ s[Len(s)] \in Whitespace
    THEN RStrip(SubSeq(s, 1, Len(s) - 1))
    ELSE s

\* str.strip()
Strip(s) == RStrip(LStrip(s))

AllDigits(s) == \A i \in 1..Len(s) : s[i] \in Digits

RECURSIVE DigitsValue(_)
DigitsValue(s) ==
    IF s = <<>> THEN 0
    ELSE 10 * DigitsValue(SubSeq(s, 1, Len(s) - 1)) + DigitVal(s[Len(s)])

\* the text after an optional sign
Unsigned(s) == IF s # <<>> /\ Head(s) \in {"-", "+"} THEN Tail(s) ELSE s
Sign(s) == IF s # <<>> /\ Head(s) = "-" THEN -1 ELSE 1

\* int(value) succeeds: optional surrounding whitespace, optional sign,
\* one or more digits
IntParses(s) ==
    LET u == Unsigned(Strip(s)) IN u # <<>> /\ AllDigits(u)

IntValue(s) == Sign(Strip(s)) * DigitsValue(Unsigned(Strip(s)))

\* positions of the decimal point in the unsigned text
DotPositions(u) == {i \in 1..Len(u) : u[i] = "."}

\* float(value) succeeds: optional surrounding whitespace, optional sign,
\* digits with at most one decimal point and at least one digit
FloatParses(s) ==
    LET u == Unsigned(Strip(s))
        noDot == SelectSeq(u, LAMBDA c : c # ".")
    IN  /\ Cardinality(DotPositions(u)) <= 1
        /\ noDot # <<>>
        /\ AllDigits(noDot)

RECURSIVE Normalise(_, _)
Normalise(m, sc) ==
    IF sc > 0 /\ m % 10 = 0 THEN Normalise(m \div 10, sc - 1)
    ELSE [m |-> m, sc |-> sc]

\* float(value) as a pair: mantissa m and scale sc stand for m / 10^sc
FloatValue(s) ==
    LET u == Unsigned(Strip(s))
        noDot == SelectSeq(u, LAMBDA c : c # ".")
        sc == IF DotPositions(u) = {} THEN 0
              ELSE Len(u) - (CHOOSE i \in DotPositions(u) : TRUE)
        n == Normalise(DigitsValue(noDot), sc)
    IN  [m |-> Sign(Strip(s)) * n.m, sc |-> n.sc]

----------------------------------------------------------------------------
(* csv.DictReader: the dict built for one data record *)

\* a dict value: a string, None (restval) or the list of surplus fields
StrVal(s) == [t |-> "str", s |-> s]
NoneVal == [t |-> "none", s |-> <<>>]
ListVal == [t |-> "list", s |-> <<>>]

\* the key None (restkey) under which surplus fields are collected
RestKey == "<None>"

\* the test without strip(): a whitespace-only value counts as a value
IsNonBlank_NoStrip(v) == v.t = "str" /\ v.s # <<>>

\* Python truthiness of `value and value.strip()` for a string or None
IsNonBlank(v) == v.t = "str" /\ Strip(v.s) # <<>>

\* d[key] = val on an insertion-ordered dict held as a sequence of items
DictSet(d, key, val) ==
    IF \E i \in 1..Len(d) : d[i].k = key
    THEN [i \in 1..Len(d) |-> IF d[i].k = key THEN [k |-> key, v |-> val] ELSE d[i]]
    ELSE Append(d, [k |-> key, v |-> val])

RECURSIVE ZipInto(_, _, _, _)
ZipInto(d, hs, fs, i) ==
    IF i > Len(hs) \/ i > Len(fs) THEN d
    ELSE ZipInto(DictSet(d, hs[i], StrVal(fs[i])), hs, fs, i + 1)

RECURSIVE FillRest(_, _, _)
FillRest(d, hs, i) ==
    IF i > Len(hs) THEN d
    ELSE FillRest(DictSet(d, hs[i], NoneVal), hs, i + 1)

\* DictReader.__next__: dict(zip(fieldnames, row)), then restkey / restval
DictRow(hs, fs) ==
    LET d == ZipInto(<<>>, hs, fs, 1) IN
    IF Len(hs) < Len(fs) THEN DictSet(d, RestKey, ListVal)
    ELSE IF Len(hs) > Len(fs) THEN FillRest(d, hs, Len(fs) + 1)
    ELSE d

HasKey(d, key) == \E i \in 1..Len(d) : d[i].k = key

\* row.get(key, "")
DictGet(d, key) ==
    IF HasKey(d, key) THEN d[CHOOSE i \in 1..Len(d) : d[i].k = key].v
    ELSE StrVal(<<>>)

\* the byte-order mark as a decoder that does not strip it delivers it
Bom == "<U+FEFF>"

\* open(csv_path, 'r', encoding=encoding) and csv.DictReader on it: what the
\* reader yields for the file.  utf-8-sig drops a leading byte-order mark,
\* utf-8 hands it on as the first character of the first header field
OpenCsv(file, encoding) ==
    IF file.bom /\ encoding # "utf-8-sig"
    THEN [headers |-> IF file.headers = <<>> THEN <<Bom>>
                      ELSE [file.headers EXCEPT ![1] = Bom \o @],
          rows |-> file.rows]
    ELSE [headers |-> file.headers, rows |-> file.rows]

----------------------------------------------------------------------------
(* RDF nodes and triples *)

Node(k, i, j, n, v) == [k |-> k, i |-> i, j |-> j, n |-> n, v |-> v, c |-> 0]
\* BNode(): a fresh blank node, named by the process_csv call that creates it
\* and by the place (kind, i, j) it is created for
BNode(k, call, i, j) == [k |-> k, i |-> i, j |-> j, n |-> "", v |-> <<>>, c |-> call]
Triple(s, p, o) == [s |-> s, p |-> p, o |-> o]

Class(name) == Node("class", 0, 0, name, <<>>)
\* Literal(header): a plain literal holding a header name
NameLit(name) == Node("namelit", 0, 0, name, <<>>)
\* Literal(value): a plain literal holding a field value
Lit(v) == Node("lit", 0, 0, "", v)
\* Literal(i, datatype=XSD.integer)
IntLit(i) == Node("xsd:integer", i, 0, "", <<>>)
\* Literal(float, datatype=XSD.decimal)
DecLit(f) == Node("xsd:decimal", f.m, f.sc, "", <<>>)
\* Literal(value, datatype=XSD.string)
StringLit(v) == Node("xsd:string", 0, 0, "", v)

Subjects(g, p, o) == {t.s : t \in {u \in g : u.p = p /\ u.o = o}}
Objects(g, s, p) == {t.o : t \in {u \in g : u.s = s /\ u.p = p}}

----------------------------------------------------------------------------
(* Optional[int] max_rows *)

\* encoding of max_rows = None (Python None, not the integer -1)
None == -1

\* truthiness of `max_rows` in `if max_rows and ...`: None and 0 are falsy
Truthy(m) == m # None /\ m # 0

NoError == ""

----------------------------------------------------------------------------
(* FDICRDFGenerator (core.py) *)

DatasetUri == Node("dataset", 0, 0, "", <<>>)
CsvFileUri == Node("csv_file", 0, 0, "", <<>>)
ActivityUri == Node("semantic_augmentation", 0, 0, "", <<>>)
GraphColumnUri(i, header) == Node("column", i, 0, header, <<>>)
GraphRowUri(i) == Node("row", i, 0, "", <<>>)
GraphCellUri(i, column) == Node("cell", i, 0, column, <<>>)
\* Literal(datetime.now().isoformat(), datatype=XSD.dateTime)
DateTimeLit(now) == Node("xsd:dateTime", now, 0, "", <<>>)
\* the i-th list node of the Collection built by the given process_csv call
ListNode(kind, call, i) == BNode(kind, call, i, 0)
RdfNil == Node("rdf:nil", 0, 0, "", <<>>)

\* Collection(graph, BNode()) followed by append of every item
CollectionTriples(kind, call, items) ==
    {Triple(ListNode(kind, call, i), "rdf:first", items[i]) : i \in 1..Len(items)}
    \cup {Triple(ListNode(kind, call, i), "rdf:rest",
                 IF i = Len(items) THEN RdfNil ELSE ListNode(kind, call, i + 1))
          : i \in 1..Len(items)}

AddDatasetMetadata_Stamped(g, now) ==
    g \cup {Triple(DatasetUri, "rdf:type", Class("dcat:Dataset")),
            Triple(DatasetUri, "dcterms:identifier", IntLit(now))}

AddDatasetMetadata(g, now) ==
    g \cup {Triple(DatasetUri, "rdf:type", Class("dcat:Dataset")),
            Triple(DatasetUri, "dcterms:title", NameLit("FDIC Insured Banks Dataset")),
            Triple(DatasetUri, "dcterms:description",
                   NameLit("Dataset containing information about FDIC-insured banks in the United States")),
            Triple(DatasetUri, "dcterms:source",
                   NameLit("Federal Deposit Insurance Corporation (FDIC)")),
            Triple(DatasetUri, "dcterms:created", DateTimeLit(now)),
            Triple(CsvFileUri, "dcterms:title", NameLit("CSV File")),
            Triple(CsvFileUri, "rdf:type", Class("dcat:Distribution")),
            Triple(CsvFileUri, "dcat:mediaType", NameLit("text/csv")),
            Triple(DatasetUri, "dcat:distribution", CsvFileUri),
            Triple(ActivityUri, "rdf:type", Class("prov:Activity")),
            Triple(ActivityUri, "prov:startedAtTime", DateTimeLit(now)),
            Triple(ActivityUri, "prov:used", CsvFileUri),
            Triple(DatasetUri, "prov:wasGeneratedBy", ActivityUri)}

AddColumnMetadata(g, header, index, cm) ==
    g \cup {Triple(GraphColumnUri(index, header), "rdf:type", Class("Column")),
            Triple(GraphColumnUri(index, header), "dcterms:title", NameLit(header)),
            Triple(GraphColumnUri(index, header), "columnIndex", IntLit(index)),
            Triple(CsvFileUri, "hasColumn", GraphColumnUri(index, header))}
      \cup (IF header \in DOMAIN cm
            THEN {Triple(GraphColumnUri(index, header), "rdfs:seeAlso",
                         Node("uri", 0, 0, cm[header].ontology_ref, <<>>)),
                  Triple(GraphColumnUri(index, header), "dcterms:description",
                         NameLit(cm[header].description)),
                  Triple(GraphColumnUri(index, header), "dataType", NameLit(cm[header].data_type)),
                  Triple(GraphColumnUri(index, header), "semanticType", NameLit(cm[header].type))}
            ELSE {})

\* _convert_value_type: the typed literal, or None when int()/float() raise
\* ValueError
ConvertValueType(value, data_type) ==
    IF data_type = "decimal"
    THEN IF FloatParses(value) THEN [ok |-> TRUE, lit |-> DecLit(FloatValue(value))]
         ELSE [ok |-> FALSE, lit |-> RdfNil]
    ELSE IF data_type = "integer"
    THEN IF IntParses(value) THEN [ok |-> TRUE, lit |-> IntLit(IntValue(value))]
         ELSE [ok |-> FALSE, lit |-> RdfNil]
    ELSE [ok |-> TRUE, lit |-> StringLit(value)]

\* Graph.add((s, p, None)) fails rdflib's assertion that the object is a term
AddCoordinate(g, cell, pred, typed) ==
    IF typed.ok THEN [g |-> g \cup {Triple(cell, pred, typed.lit)}, err |-> NoError]
    ELSE [g |-> g, err |-> "AssertionError"]

AddCellMetadata(g, cell, row, column, value, cm) ==
    LET g1 == g \cup {Triple(cell, "rdf:type", Class("Cell")),
                      Triple(cell, "columnName", NameLit(column)),
                      Triple(cell, "rawValue", Lit(value)),
                      Triple(row, "hasCell", cell)}
    IN  IF column \notin DOMAIN cm THEN [g |-> g1, err |-> NoError]
        ELSE LET typed == ConvertValueType(value, cm[column].data_type)
                 g2 == IF typed.ok
                       THEN g1 \cup {Triple(cell, "typedValue", typed.lit)}
                       ELSE g1
             IN  IF cm[column].type = "coordinate" /\ column \in {"X", "LONGITUDE"}
                 THEN AddCoordinate(g2, cell, "geo:longitude", typed)
                 ELSE IF cm[column].type = "coordinate" /\ column \in {"Y", "LATITUDE"}
                 THEN AddCoordinate(g2, cell, "geo:latitude", typed)
                 ELSE IF cm[column].type = "bank_name"
                 THEN [g |-> g2 \cup {Triple(cell, "foaf:name", Lit(value))}, err |-> NoError]
                 ELSE [g |-> g2, err |-> NoError]

\* the branch left out: no resource for an empty value
AddEmptyCell_Skip(g, cell, row, column) == g

\* the branch of _add_row_metadata for an empty or whitespace-only value
AddEmptyCell(g, cell, row, column) ==
    g \cup {Triple(cell, "rdf:type", Class("Cell")),
            Triple(cell, "columnName", NameLit(column)),
            Triple(cell, "rawValue", Lit(<<>>)),
            Triple(row, "hasCell", cell)}

\* the loop over row.items() in _add_row_metadata
RECURSIVE AddRowCells(_, _, _, _, _, _)
AddRowCells(g, items, k, index, column_uris, cm) ==
    IF k > Len(items) THEN [g |-> g, err |-> NoError]
    ELSE IF items[k].k \notin column_uris
    THEN AddRowCells(g, items, k + 1, index, column_uris, cm)
    ELSE IF IsNonBlank(items[k].v)
    THEN LET r == AddCellMetadata(g, GraphCellUri(index, items[k].k), GraphRowUri(index),
                                  items[k].k, items[k].v.s, cm)
         IN  IF r.err # NoError THEN r
             ELSE AddRowCells(r.g, items, k + 1, index, column_uris, cm)
    ELSE AddRowCells(AddEmptyCell(g, GraphCellUri(index, items[k].k), GraphRowUri(index),
                                  items[k].k),
                     items, k + 1, index, column_uris, cm)

AddRowMetadata(g, row, index, column_uris, cm) ==
    AddRowCells(g \cup {Triple(GraphRowUri(index), "rdf:type", Class("BankRecord")),
                        Triple(GraphRowUri(index), "rowIndex", IntLit(index)),
                        Triple(CsvFileUri, "hasRow", GraphRowUri(index))},
                row, 1, index, column_uris, cm)

RECURSIVE AddColumns(_, _, _, _)
AddColumns(g, hs, i, cm) ==
    IF i > Len(hs) THEN g
    ELSE AddColumns(AddColumnMetadata(g, hs[i], i - 1, cm), hs, i + 1, cm)

\* the rest of one pass of the loop `for row_idx, row in enumerate(reader)`
\* of _process_csv_data once _add_row_metadata has left r; st = [g,
\* rows_processed, err, stop], stop is set by the break and by an exception
GraphRowDone(st, r, max_rows) ==
    IF r.err # NoError THEN [st EXCEPT !.g = r.g, !.err = r.err, !.stop = TRUE]
    ELSE [g |-> r.g, rows_processed |-> st.rows_processed + 1, err |-> NoError,
          stop |-> Truthy(max_rows) /\ st.rows_processed + 1 >= max_rows]

\* one pass of the loop, for the record at row_idx (0-based)
GraphRowPass(st, f, row_idx, max_rows, cm) ==
    IF st.stop THEN st
    ELSE GraphRowDone(st,
                      AddRowMetadata(st.g, DictRow(f.headers, f.rows[row_idx + 1]), row_idx,
                                     {f.headers[i] : i \in 1..Len(f.headers)}, cm),
                      max_rows)

\* the passes for the records lo..hi-1, in order: the first half of them,
\* then, unless the loop has been left, the second half
RECURSIVE GraphRowLoop(_, _, _, _, _, _)
GraphRowRest(left, f, lo, hi, max_rows, cm) ==
    IF left.stop THEN left ELSE GraphRowLoop(left, f, lo, hi, max_rows, cm)

GraphRowLoop(st, f, lo, hi, max_rows, cm) ==
    IF lo >= hi THEN st
    ELSE IF hi = lo + 1 THEN GraphRowPass(st, f, lo, max_rows, cm)
    ELSE GraphRowRest(GraphRowLoop(st, f, lo, (lo + hi) \div 2, max_rows, cm),
                      f, (lo + hi) \div 2, hi, max_rows, cm)

\* the end of _process_csv_data, after the row loop has left st
RowsDone(st, f, cm, call) ==
    IF st.err # NoError
    THEN [g |-> st.g, rows_processed |-> st.rows_processed, columns_mapped |-> 0,
          err |-> st.err]
    ELSE [g |-> st.g \cup CollectionTriples("rowList", call,
                              [i \in 1..st.rows_processed |-> GraphRowUri(i - 1)])
                     \cup {Triple(CsvFileUri, "hasRowList", ListNode("rowList", call, 1))},
          rows_processed |-> st.rows_processed,
          columns_mapped |-> Cardinality({i \in 1..Len(f.headers) : f.headers[i] \in DOMAIN cm}),
          err |-> NoError]

\* _process_csv_data; f is the CSV file, call numbers the process_csv call
ProcessCsvData(g, f, max_rows, cm, call) ==
    RowsDone(GraphRowLoop(
                [g |-> AddColumns(g, f.headers, 1, cm)
                         \cup CollectionTriples("columnList", call,
                                [i \in 1..Len(f.headers) |-> GraphColumnUri(i - 1, f.headers[i])])
                         \cup {Triple(CsvFileUri, "hasColumnList", ListNode("columnList", call, 1))},
                 rows_processed |-> 0, err |-> NoError, stop |-> FALSE],
                f, 0, Len(f.rows), max_rows, cm),
             f, cm, call)

\* the dict process_csv returns, with the graph and an escaped exception
ProcessCsvResult(r) ==
    [g |-> r.g, err |-> r.err,
     rows_processed |-> r.rows_processed,
     columns_mapped |-> r.columns_mapped,
     triples_generated |-> Cardinality(r.g)]

\* FDICRDFGenerator.process_csv: the graph afterwards and the returned dict
GraphProcessCsv(g, f, max_rows, cm, now, call) ==
    ProcessCsvResult(ProcessCsvData(AddDatasetMetadata(g, now), OpenCsv(f, "utf-8-sig"),
                                    max_rows, cm, call))

----------------------------------------------------------------------------
(* SimpleFDICRDFGenerator (core_simple.py) *)

SimpleTableUri == Node("table", 0, 0, "", <<>>)
AnnotationUri(id) == Node("annotation", id, 0, "", <<>>)

\* the triples of annotations/column_annotations.ttl; an annotation is
\* [id, name, data_type]
AnnotationGraph(anns) ==
    UNION {{Triple(AnnotationUri(anns[i].id), "rdf:type", Class("fdic:ColumnAnnotation")),
            Triple(AnnotationUri(anns[i].id), "fdic:columnName", NameLit(anns[i].name)),
            Triple(AnnotationUri(anns[i].id), "fdic:dataType", NameLit(anns[i].data_type))}
           : i \in 1..Len(anns)}

RECURSIVE SimpleAddColumns(_, _, _, _)
SimpleAddColumns(g, hs, i, call) ==
    IF i > Len(hs) THEN g
    ELSE SimpleAddColumns(
            g \cup {Triple(BNode("column", call, i - 1, 0), "rdf:type", Class("fdic:Column")),
                    Triple(BNode("column", call, i - 1, 0), "fdic:columnName", NameLit(hs[i])),
                    Triple(BNode("column", call, i - 1, 0), "fdic:columnIndex", IntLit(i - 1)),
                    Triple(SimpleTableUri, "fdic:hasColumn", BNode("column", call, i - 1, 0))},
            hs, i + 1, call)

\* every cell linked to the first column
ColumnRef_First(hs, header, call) == BNode("column", call, 0, 0)

\* column_refs[header]: the blank node of the last column carrying the name
ColumnRef(hs, header, call) ==
    BNode("column", call, (CHOOSE i \in 1..Len(hs) :
                              /\ hs[i] = header
                              /\ \A j \in (i + 1)..Len(hs) : hs[j] # header) - 1, 0)

\* `for header in headers` of _build_table_structure: the cells of one row
SimpleRowCells(hs, row, row_idx, call) ==
    UNION {IF IsNonBlank(DictGet(row, hs[i]))
           THEN {Triple(BNode("cell", call, row_idx, i - 1), "rdf:type", Class("fdic:Cell")),
                 Triple(BNode("cell", call, row_idx, i - 1), "fdic:value",
                        Lit(DictGet(row, hs[i]).s)),
                 Triple(BNode("cell", call, row_idx, i - 1), "fdic:inRow",
                        BNode("row", call, row_idx, 0)),
                 Triple(BNode("cell", call, row_idx, i - 1), "fdic:inColumn",
                        ColumnRef(hs, hs[i], call))}
           ELSE {}
           : i \in 1..Len(hs)}

\* the triples of one pass of the row loop of _build_table_structure
SimpleRowTriples(f, row_idx, call) ==
    {Triple(BNode("row", call, row_idx, 0), "rdf:type", Class("fdic:Row")),
     Triple(BNode("row", call, row_idx, 0), "fdic:rowIndex", IntLit(row_idx)),
     Triple(SimpleTableUri, "fdic:hasRow", BNode("row", call, row_idx, 0))}
      \cup SimpleRowCells(f.headers, DictRow(f.headers, f.rows[row_idx + 1]), row_idx, call)

\* the loop `for row_idx, row in enumerate(reader)` of _build_table_structure
RECURSIVE SimpleRowLoop(_, _, _, _, _)
SimpleRowLoop(st, f, row_idx, max_rows, call) ==
    IF row_idx >= Len(f.rows) THEN st
    ELSE IF Truthy(max_rows) /\ st.rows_processed + 1 >= max_rows
    THEN [g |-> st.g \cup SimpleRowTriples(f, row_idx, call),
          rows_processed |-> st.rows_processed + 1]
    ELSE SimpleRowLoop([g |-> st.g \cup SimpleRowTriples(f, row_idx, call),
                        rows_processed |-> st.rows_processed + 1],
                       f, row_idx + 1, max_rows, call)

BuildTableStructure(g, f, max_rows, now, call) ==
    SimpleRowLoop([g |-> SimpleAddColumns(
                            g \cup {Triple(SimpleTableUri, "rdf:type", Class("fdic:Table")),
                                    Triple(SimpleTableUri, "dcterms:title", NameLit("FDIC Table")),
                                    Triple(SimpleTableUri, "dcterms:created", DateTimeLit(now))},
                            f.headers, 1, call),
                   rows_processed |-> 0],
                  f, 0, max_rows, call)

\* the first annotation, in the iteration order `order` of the annotation
\* resources, whose columnName equals the column's; 0 when there is none
FirstMatch(g, column, order) ==
    LET matches == {k \in 1..Len(order) :
                      Objects(g, column, "fdic:columnName")
                        \cap Objects(g, order[k], "fdic:columnName") # {}}
    IN  IF matches = {} THEN 0
        ELSE CHOOSE k \in matches : \A m \in matches : k <= m

\* the loop over the annotations without its break
LinkColumnAnnotations_NoBreak(g, order) ==
    g \cup UNION {{Triple(col, "fdic:hasAnnotation", order[k])
                    : k \in {m \in 1..Len(order) :
                               Objects(g, col, "fdic:columnName")
                                 \cap Objects(g, order[m], "fdic:columnName") # {}}}
                   : col \in Subjects(g, "rdf:type", Class("fdic:Column"))}

\* _link_column_annotations; order lists the ColumnAnnotation resources of
\* the graph in the order graph.subjects() yields them
LinkColumnAnnotations(g, order) ==
    g \cup {Triple(col, "fdic:hasAnnotation", order[FirstMatch(g, col, order)])
            : col \in {c \in Subjects(g, "rdf:type", Class("fdic:Column")) :
                         FirstMatch(g, c, order) # 0}}

\* steps 2 and 3 of SimpleFDICRDFGenerator.process_csv: merge the annotations
\* file, when it exists, and link the columns
MergeAnnotations(g, ann) ==
    IF ann.exists
    THEN LinkColumnAnnotations(g \cup AnnotationGraph(ann.items),
                               [i \in 1..Len(ann.items) |-> AnnotationUri(ann.items[i].id)])
    ELSE g

\* SimpleFDICRDFGenerator.process_csv; ann = [exists, items] is the
\* annotations file, st what _build_table_structure left
SimpleProcessCsvResult(st, ann) ==
    ProcessCsvResult([g |-> MergeAnnotations(st.g, ann), err |-> NoError,
                      rows_processed |-> st.rows_processed, columns_mapped |-> 0])

SimpleProcessCsv(g, f, max_rows, ann, now, call) ==
    SimpleProcessCsvResult(BuildTableStructure(g, OpenCsv(f, "utf-8-sig"), max_rows, now, call),
                           ann)

----------------------------------------------------------------------------
(* CSV2RDF (csv2rdf.py) *)

ChunkedTableUri == Node("table", 0, 0, "", <<>>)
ChunkedColumnUri(idx) == Node("column", idx, 0, "", <<>>)
ChunkedRowUri(row_idx) == Node("row", row_idx, 0, "", <<>>)
ChunkedCellUri(row_idx, col_idx) == Node("cell", row_idx, col_idx, "", <<>>)

\* column_annotations[header]: load_annotations keeps, for every name, the
\* annotation read last
ColumnAnnotation(anns, header) ==
    anns[CHOOSE i \in 1..Len(anns) :
            /\ anns[i].name = header
            /\ \A j \in (i + 1)..Len(anns) : anns[j].name # header]

RECURSIVE CreateColumns(_, _, _, _)
CreateColumns(g, hs, i, anns) ==
    IF i > Len(hs) THEN g
    ELSE CreateColumns(
            g \cup {Triple(ChunkedColumnUri(i - 1), "rdf:type", Class("Column")),
                    Triple(ChunkedColumnUri(i - 1), "columnName", NameLit(hs[i])),
                    Triple(ChunkedColumnUri(i - 1), "columnIndex", IntLit(i - 1)),
                    Triple(ChunkedTableUri, "hasColumn", ChunkedColumnUri(i - 1))}
              \cup (IF \E k \in 1..Len(anns) : anns[k].name = hs[i]
                    THEN {Triple(ChunkedColumnUri(i - 1), "hasAnnotation",
                                 AnnotationUri(ColumnAnnotation(anns, hs[i]).id))}
                         \cup {t \in AnnotationGraph(anns) :
                                 t.s = AnnotationUri(ColumnAnnotation(anns, hs[i]).id)}
                    ELSE {}),
            hs, i + 1, anns)

\* create_table_metadata
CreateTableMetadata(g, hs, anns, now) ==
    CreateColumns(g \cup {Triple(ChunkedTableUri, "rdf:type", Class("Table")),
                          Triple(ChunkedTableUri, "dcterms:title", NameLit("Table")),
                          Triple(ChunkedTableUri, "dcterms:created", DateTimeLit(now))},
                  hs, 1, anns)

ChunkedValueLiteral_FloatFirst(value) ==
    IF FloatParses(value) THEN DecLit(FloatValue(value))
    ELSE IF IntParses(value) THEN IntLit(IntValue(value))
    ELSE Lit(value)

\* the hasValue literal: int(value), else float(value), else the string
ChunkedValueLiteral(value) ==
    IF IntParses(value) THEN IntLit(IntValue(value))
    ELSE IF FloatParses(value) THEN DecLit(FloatValue(value))
    ELSE Lit(value)

\* the triple lines written for one materialized cell
ChunkedCellTriples(row_idx, col_idx, value) ==
    <<Triple(ChunkedCellUri(row_idx, col_idx), "rdf:type", Class("Cell")),
      Triple(ChunkedCellUri(row_idx, col_idx), "hasRow", ChunkedRowUri(row_idx)),
      Triple(ChunkedCellUri(row_idx, col_idx), "hasColumn", ChunkedColumnUri(col_idx)),
      Triple(ChunkedCellUri(row_idx, col_idx), "hasValue", ChunkedValueLiteral(value)),
      Triple(ChunkedRowUri(row_idx), "hasCell", ChunkedCellUri(row_idx, col_idx))>>

\* `for col_idx, (header, value) in enumerate(row.items())`: the lines written
\* for one row after its type line; a list value (surplus fields) has no
\* strip() and raises AttributeError
RECURSIVE ChunkedRowCells(_, _, _, _)
ChunkedRowCells(lines, items, k, row_idx) ==
    IF k > Len(items) THEN [lines |-> lines, err |-> NoError]
    ELSE IF items[k].v.t = "list" THEN [lines |-> lines, err |-> "AttributeError"]
    ELSE IF IsNonBlank(items[k].v)
    THEN ChunkedRowCells(lines \o ChunkedCellTriples(row_idx, k - 1, items[k].v.s),
                         items, k + 1, row_idx)
    ELSE ChunkedRowCells(lines, items, k + 1, row_idx)

\* f"chunk_{current_chunk:04d}.ttl": the decimal digits of the number, padded
\* with zeros on the left to a width of at least four
RECURSIVE Format_d(_)
Format_d(n) ==
    IF n < 10 THEN (CHOOSE c \in Digits : DigitVal(c) = n)
    ELSE Format_d(n \div 10) \o (CHOOSE c \in Digits : DigitVal(c) = n % 10)

ChunkFilename(current_chunk) ==
    "chunk_"
      \o (IF current_chunk < 10 THEN "000"
          ELSE IF current_chunk < 100 THEN "00"
          ELSE IF current_chunk < 1000 THEN "0" ELSE "")
      \o Format_d(current_chunk) \o ".ttl"

ChunkIsFull_Late(rows_in_chunk, rows_per_chunk) == rows_in_chunk > rows_per_chunk

\* `if rows_in_chunk >= rows_per_chunk`, after the increment
ChunkIsFull(rows_in_chunk, rows_per_chunk) == rows_in_chunk >= rows_per_chunk

WriteChunk_Truncating(chunks, lines) ==
    [chunks EXCEPT ![Len(chunks)] = lines]

\* append lines to the chunk file opened last
WriteChunk(chunks, lines) ==
    [chunks EXCEPT ![Len(chunks)] = @ \o lines]

\* the loop `for row_idx, row in enumerate(reader)` of CSV2RDF.process_csv;
\* st = [full, chunks, chunk_files, rows_in_chunk, current_chunk, row_count, err];
\* ChunkedRowDone is the loop body once the lines r of the row are known
RECURSIVE ChunkedRowLoop(_, _, _, _, _)
ChunkedRowDone(st, r, f, row_idx, max_rows, rows_per_chunk) ==
    IF r.err # NoError
    THEN [st EXCEPT !.full = @ \o r.lines, !.chunks = WriteChunk(@, r.lines), !.err = r.err]
    ELSE ChunkedRowLoop(
            [st EXCEPT !.full = @ \o r.lines,
                       !.chunks = WriteChunk(@, r.lines),
                       !.row_count = @ + 1,
                       !.rows_in_chunk = IF ChunkIsFull(@ + 1, rows_per_chunk) THEN 0 ELSE @ + 1,
                       !.current_chunk = IF ChunkIsFull(st.rows_in_chunk + 1, rows_per_chunk)
                                         THEN @ + 1 ELSE @],
            f, row_idx + 1, max_rows, rows_per_chunk)

ChunkedRowLoop(st, f, row_idx, max_rows, rows_per_chunk) ==
    IF row_idx >= Len(f.rows) THEN st
    ELSE IF Truthy(max_rows) /\ row_idx >= max_rows THEN st
    ELSE ChunkedRowDone(
            IF st.rows_in_chunk = 0
            THEN [st EXCEPT !.chunk_files = Append(@, ChunkFilename(st.current_chunk)),
                            !.chunks = Append(@, <<>>)]
            ELSE st,
            ChunkedRowCells(<<Triple(ChunkedRowUri(row_idx), "rdf:type", Class("Row"))>>,
                            DictRow(f.headers, f.rows[row_idx + 1]), 1, row_idx),
            f, row_idx, max_rows, rows_per_chunk)

\* the end of CSV2RDF.process_csv: table_manifest.json is written only when
\* the row loop completes
ChunkedResult(g, st, rows_per_chunk) ==
    [g |-> g, err |-> st.err,
     full |-> st.full, chunks |-> st.chunks,
     manifest |-> IF st.err = NoError
                  THEN [written |-> TRUE, row_count |-> st.row_count,
                        chunk_size |-> rows_per_chunk, chunks |-> st.chunk_files]
                  ELSE [written |-> FALSE, row_count |-> 0,
                        chunk_size |-> 0, chunks |-> <<>>],
     rows_processed |-> st.row_count,
     columns_mapped |-> 0,
     triples_generated |-> Cardinality(g)]

\* CSV2RDF.process_csv: the graph, the row lines of full.ttl, the chunk files
\* and table_manifest.json
ChunkedProcessCsv(g, f, max_rows, rows_per_chunk, anns, now) ==
    ChunkedResult(CreateTableMetadata(g, OpenCsv(f, "utf-8").headers, anns, now),
                  ChunkedRowLoop([full |-> <<>>, chunks |-> <<>>, chunk_files |-> <<>>,
                                  rows_in_chunk |-> 0, current_chunk |-> 0, row_count |-> 0,
                                  err |-> NoError],
                                 OpenCsv(f, "utf-8"), 0, max_rows, rows_per_chunk),
                  rows_per_chunk)

----------------------------------------------------------------------------
(* Viewer output: generate_viewer_output of both generators *)

Ceil_Floor(n, p) == n \div p

\* math.ceil(total_rows / rows_per_page)
Ceil(n, p) == IF n % p = 0 THEN n \div p ELSE n \div p + 1

Min(a, b) == IF a < b THEN a ELSE b

\* the loop `for page_num in range(total_pages)`: one page file per pass
RECURSIVE WritePages(_, _, _, _, _)
WritePages(pages, page_num, total_pages, rows_per_page, rows) ==
    IF page_num >= total_pages THEN pages
    ELSE LET start_idx == page_num * rows_per_page
             end_idx == Min(start_idx + rows_per_page, Len(rows))
         IN  WritePages(Append(pages, [page |-> page_num,
                                       start_row |-> start_idx,
                                       end_row |-> end_idx - 1,
                                       rows |-> SubSeq(rows, start_idx + 1, end_idx)]),
                        page_num + 1, total_pages, rows_per_page, rows)

NoViewer ==
    [error |-> "", manifest_written |-> FALSE, total_rows |-> 0, total_pages |-> 0,
     headers |-> <<>>, pages |-> <<>>]

\* manifest.json and the page files written for a table of headers and rows
ViewerFiles(headers, rows, rows_per_page) ==
    [error |-> "", manifest_written |-> TRUE,
     total_rows |-> Len(rows),
     total_pages |-> Ceil(Len(rows), rows_per_page),
     headers |-> headers,
     pages |-> WritePages(<<>>, 0, Ceil(Len(rows), rows_per_page), rows_per_page, rows)]

\* FDICRDFGenerator.generate_viewer_output: reads the CSV file again, every
\* row of it, each as [row.get(col, "") for col in headers]
GraphViewerRows(f) ==
    [r \in 1..Len(f.rows) |->
        [c \in 1..Len(f.headers) |-> DictGet(DictRow(f.headers, f.rows[r]), f.headers[c])]]

GraphGenerateViewerOutput(f, rows_per_page) ==
    ViewerFiles(OpenCsv(f, "utf-8-sig").headers, GraphViewerRows(OpenCsv(f, "utf-8-sig")),
                rows_per_page)

\* a set of records in ascending order of their idx field
RECURSIVE SortByIdx(_)
SortByIdx(S) ==
    IF S = {} THEN <<>>
    ELSE LET m == CHOOSE x \in S : \A y \in S : x.idx <= y.idx
         IN  <<m>> \o SortByIdx(S \ {m})

\* graph.value(s, p): one object of the node for the predicate
Value(g, s, p) == CHOOSE o \in Objects(g, s, p) : TRUE

\* the (index, name, column) entries _extract_table_data_from_rdf collects,
\* sorted by index; a column without a non-empty name or an index is left out
ExtractColumns(g, table) ==
    SortByIdx({[idx |-> Value(g, col, "fdic:columnIndex").i,
                name |-> Value(g, col, "fdic:columnName").n,
                node |-> col] :
                 col \in {c \in Objects(g, table, "fdic:hasColumn") :
                            /\ Objects(g, c, "fdic:columnName") # {}
                            /\ Value(g, c, "fdic:columnName").n # ""
                            /\ Objects(g, c, "fdic:columnIndex") # {}}})

\* row_values of one row: the value of a cell of the row in the column, or ""
ExtractRowValues(g, row, columns) ==
    [i \in 1..Len(columns) |->
        LET cells == {c \in Subjects(g, "fdic:inRow", row) :
                        columns[i].node \in Objects(g, c, "fdic:inColumn")}
        IN  IF cells = {} THEN StrVal(<<>>)
            ELSE StrVal(Value(g, CHOOSE c \in cells : TRUE, "fdic:value").v)]

\* _extract_table_data_from_rdf, for the table found in the graph
ExtractTableData(g, table) ==
    LET columns == ExtractColumns(g, table)
        rows_data == SortByIdx({[idx |-> Value(g, row, "fdic:rowIndex").i, node |-> row] :
                        row \in {r \in Objects(g, table, "fdic:hasRow") :
                                   Objects(g, r, "fdic:rowIndex") # {}}})
    IN  [headers |-> [i \in 1..Len(columns) |-> columns[i].name],
         rows |-> [r \in 1..Len(rows_data) |-> ExtractRowValues(g, rows_data[r].node, columns)]]

SimpleGenerateViewerOutput_NoCheck(g, rows_per_page) ==
    ViewerFiles(<<>>, <<>>, rows_per_page)

\* SimpleFDICRDFGenerator.generate_viewer_output
SimpleGenerateViewerOutput(g, rows_per_page) ==
    IF Subjects(g, "rdf:type", Class("fdic:Table")) = {}
    THEN [NoViewer EXCEPT !.error = "No table data found"]
    ELSE LET data == ExtractTableData(g, CHOOSE t \in Subjects(g, "rdf:type", Class("fdic:Table")) : TRUE)
         IN  ViewerFiles(data.headers, data.rows, rows_per_page)

----------------------------------------------------------------------------
(* Job adapter (job.py) *)

\* the row limit process_fdic_omg_job passes to process_csv
JobRowCap == 100

\* str.lower() on the characters of the paths
LowerChar(c) ==
    CASE c = "B" -> "b" [] c = "C" -> "c" [] c = "S" -> "s" [] c = "V" -> "v"
      [] OTHER -> c

Lower(s) == [i \in 1..Len(s) |-> LowerChar(s[i])]

\* str.endswith(suffix)
EndsWith(s, suffix) ==
    /\ Len(s) >= Len(suffix)
    /\ SubSeq(s, Len(s) - Len(suffix) + 1, Len(s)) = suffix

IsCsvPath_CaseSensitive(file_path) == EndsWith(file_path, <<".", "c", "s", "v">>)

\* file_path.lower().endswith('.csv')
IsCsvPath(file_path) == EndsWith(Lower(file_path), <<".", "c", "s", "v">>)

\* the loop over input_files: index of the first CSV path from i on, 0 for none
RECURSIVE FindCsv(_, _)
FindCsv(input_files, i) ==
    IF i > Len(input_files) THEN 0
    ELSE IF IsCsvPath(input_files[i]) THEN i
    ELSE FindCsv(input_files, i + 1)

\* result_uri: public_url, "/rdf/results/" and the name of the result directory
ResultUri == "http://host/rdf/results/tmp/"

\* the URI FDICRDFGenerator gave a row or a cell of the graph
ResourceUri(node) ==
    IF node.k = "row" THEN ResultUri \o "row_" \o ToString(node.i)
    ELSE ResultUri \o "cell_" \o ToString(node.i) \o "_" \o node.n

\* the URIs of the Row and Cell resources of the graph
GeneratorUris(g) == {ResourceUri(t.s) : t \in {u \in g : u.s.k \in {"row", "cell"}}}

\* urllib.parse.quote on a column name: letters, digits and _.-~ stay
Quote(col) == IF col = "A B" THEN "A%20B" ELSE col

\* row_uri and cell_uri of _generate_data_table_html
TableRowUri(idx) == ResultUri \o "row/" \o ToString(idx)
TableCellUri(idx, col) == ResultUri \o "cell/" \o ToString(idx) \o "/" \o Quote(col)

\* list(Collection(graph, graph.value(csv_uri, p))): the items of the list
\* the CSV file resource names under the predicate, none when it names none
ListItems(g, p) ==
    IF Objects(g, CsvFileUri, p) = {} THEN <<>>
    ELSE LET head == Value(g, CsvFileUri, p)
             firsts == {t \in g : t.p = "rdf:first" /\ t.s.k = head.k /\ t.s.c = head.c}
         IN  [i \in 1..Cardinality(firsts) |-> (CHOOSE t \in firsts : t.s.i = i).o]

\* column_names of _generate_data_table_html
DataTableColumnNames(g) ==
    LET columns == ListItems(g, "hasColumnList")
    IN  [i \in 1..Len(columns) |-> Value(g, columns[i], "dcterms:title").n]

\* csv_data: the rows of the row list that hold a cell with a column name
DataTableRows(g) ==
    SelectSeq(ListItems(g, "hasRowList"),
              LAMBDA row_uri : \E cell \in Objects(g, row_uri, "hasCell") :
                                  NameLit("") \notin Objects(g, cell, "columnName"))

\* the rows of csv_data the table shows
TableRowCap == 100

\* the nodes the RDF links of the rows and cells of the table address
DataTableLinks(g) ==
    LET shown == 0..(Min(Len(DataTableRows(g)), TableRowCap) - 1)
        column_names == DataTableColumnNames(g)
    IN  {TableRowUri(idx) : idx \in shown}
          \cup {TableCellUri(idx, column_names[c]) : idx \in shown, c \in 1..Len(column_names)}

\* str `in`: sub occurs in s
Contains(s, sub) ==
    \E i \in 1..(Len(s) - Len(sub) + 1) : SubSeq(s, i, i + Len(sub) - 1) = sub

\* ontology_name in the loop over the column mappings
OntologyName(ontology_ref) ==
    IF Contains(Lower(ontology_ref), <<"g", "e", "o">>) THEN "GeoSPARQL"
    ELSE IF Contains(Lower(ontology_ref), <<"g", "e", "o", "n", "a", "m", "e", "s">>)
    THEN "GeoNames"
    ELSE "FIBO"

\* the loop over results['column_mappings'], written below the return
\* statement of _generate_html_report
MappingRows(column_mappings) ==
    {[column |-> c, type |-> column_mappings[c].type,
      ontology |-> OntologyName(column_mappings[c].ontology_ref)]
       : c \in DOMAIN column_mappings}

\* _generate_html_report: the return statement under the RDFTab link hands
\* back the page up to the header line of the mappings table; the loop over
\* the column mappings stands below it and never runs
GenerateHtmlReport(results) ==
    [results EXCEPT !.pc = "written", !.rows = {}]

\* Path(csv_file).stem of a path with a four-character suffix
Stem(file_path) == SubSeq(file_path, 1, Len(file_path) - 4)

\* str(e) of the exceptions the conversion and the writes raise
Message(err) ==
    CASE err = "FileNotFoundError" -> "No such file or directory"
      [] err = "TypeError" -> "'NoneType' object is not iterable"
      [] err = "AssertionError" -> "Object None must be an rdflib term"
      [] err = "OSError" -> "No space left on device"
      [] OTHER -> err

\* the classes `except Exception` does not catch
Caught_OSErrorOnly(err) == err = "OSError"

\* `except Exception`: every exception the conversion and the writes raise
\* derives from Exception
Caught(err) ==
    err \in {"FileNotFoundError", "TypeError", "AssertionError", "OSError", "AttributeError"}

\* the files the adapter writes under output_path, in the order of writing:
\* _save_outputs, the HTML report, the data table, the metadata JSON
OutputFiles ==
    <<"fdic_semantic.ttl", "fdic_semantic.jsonld", "fdic_semantic.n3", "fdic_semantic.nt",
      "fdic_omg_report.html", "fdic_data_table.html", "column_mappings.json">>

\* the entries of "reports": key and file under the base result URL
Reports ==
    <<[key |-> "task_directory", file |-> ""],
      [key |-> "fdic_omg_report", file |-> "fdic_omg_report.html"],
      [key |-> "fdic_data_table", file |-> "fdic_data_table.html"],
      [key |-> "fdic_turtle", file |-> "fdic_semantic.ttl"],
      [key |-> "fdic_jsonld", file |-> "fdic_semantic.jsonld"],
      [key |-> "fdic_mappings", file |-> "column_mappings.json"]>>

NoCsvResult == [alerts |-> <<"No CSV file found in input">>, reports |-> <<>>]

ErrorResult_KeepReports(msg) ==
    [alerts |-> <<"Error processing FDIC CSV: " \o msg>>, reports |-> Reports]

\* the dictionary returned by the except clause
ErrorResult(msg) ==
    [alerts |-> <<"Error processing FDIC CSV: " \o msg>>, reports |-> <<>>]

SuccessResult(csv_file) ==
    [alerts |-> <<>>, reports |-> Reports,
     uris |-> [dataset |-> "dataset", csv |-> Stem(csv_file)]]

\* the CSV file found at the path: absent, of zero bytes, or a header X and
\* n data records holding value
JobCsv(disk) ==
    [bom |-> FALSE, headers |-> <<"X">>, rows |-> [i \in 1..disk.n |-> <<disk.value>>]]

\* FDICRDFGenerator(result_uri).process_csv(Path(csv_file), max_rows=100):
\* open() raises for an absent file, enumerate(reader.fieldnames) for a file
\* of zero bytes
JobGenerate(disk, mappings, t) ==
    IF disk.kind = "missing"
    THEN ProcessCsvResult([g |-> AddDatasetMetadata({}, t), err |-> "FileNotFoundError",
                           rows_processed |-> 0, columns_mapped |-> 0])
    ELSE IF disk.kind = "empty"
    THEN ProcessCsvResult([g |-> AddDatasetMetadata({}, t), err |-> "TypeError",
                           rows_processed |-> 0, columns_mapped |-> 0])
    ELSE GraphProcessCsv({}, JobCsv(disk), JobRowCap, mappings, t, 1)

\* the writes after the conversion, up to the one that fails (fault names the
\* file whose write raises OSError, "" when none does)
WrittenBefore(fault) ==
    IF fault = "" THEN {OutputFiles[i] : i \in 1..Len(OutputFiles)}
    ELSE {OutputFiles[i] : i \in {k \in 1..Len(OutputFiles) :
                                     \A m \in 1..k : OutputFiles[m] # fault}}

\* generate_challenge_metadata(column_mappings) with processing_results set
ChallengeMetadata(r) ==
    [processing_results |-> [rows_processed |-> r.rows_processed,
                             columns_mapped |-> r.columns_mapped,
                             triples_generated |-> r.triples_generated]]

NoMetadata ==
    [processing_results |-> [rows_processed |-> 0, columns_mapped |-> 0,
                             triples_generated |-> 0]]

\* what one exception raised inside the try block leads to: the except
\* clause's dictionary, or the exception leaving the function
JobFailed(j, err, written) ==
    IF Caught(err)
    THEN [j EXCEPT !.done = TRUE, !.err = err, !.written = written,
                   !.returned = ErrorResult(Message(err))]
    ELSE [j EXCEPT !.done = TRUE, !.err = err, !.written = written, !.raised = TRUE]

\* the try block once process_csv has left r
JobConverted(j, r, csv_file) ==
    IF r.err # NoError THEN JobFailed(j, r.err, {})
    ELSE IF j.fault # ""
    THEN [JobFailed(j, "OSError", WrittenBefore(j.fault))
            EXCEPT !.links = IF "fdic_data_table.html" \in WrittenBefore(j.fault)
                             THEN DataTableLinks(r.g) ELSE {}]
    ELSE [j EXCEPT !.done = TRUE,
                   !.written = WrittenBefore(""),
                   !.links = DataTableLinks(r.g),
                   !.metadata = ChallengeMetadata(r),
                   !.returned = SuccessResult(csv_file)]

\* process_fdic_omg_job; j holds the arguments and the environment, r is
\* what process_csv leaves for the CSV file on disk
ProcessFdicOmgJob(j, r) ==
    LET idx == FindCsv(j.input_files, 1) IN
    IF idx = 0
    THEN [j EXCEPT !.done = TRUE, !.returned = NoCsvResult]
    ELSE JobConverted([j EXCEPT !.csv_file = j.input_files[idx], !.generators = 1,
                                !.max_rows = JobRowCap],
                      r, j.input_files[idx])

----------------------------------------------------------------------------
(* AnnotationConverter (annotation_converter.py) *)

\* A YAML document is [columns]: the entries of data['columns'] in
\* insertion order, each [name, data].  A column name is a sequence of
\* characters.  An optional key of column_data is a sequence of length 0
\* (absent) or 1; mappings and references are lists; comments is
\* [kind, items] with kind "absent", "str" or "list".  A property or
\* reference URI is the node of its expanded form (_expand_uri and
\* _compact_uri only change the prefix styling of a URI).

Letters ==
    {"a", "b", "c", "d", "e", "f", "g", "h", "i", "j", "k", "l", "m",
     "n", "o", "p", "q", "r", "s", "t", "u", "v", "w", "x", "y", "z",
     "A", "B", "C", "D", "E", "F", "G", "H", "I", "J", "K", "L", "M",
     "N", "O", "P", "Q", "R", "S", "T", "U", "V", "W", "X", "Y", "Z"}

\* re.sub(r'[^a-zA-Z0-9_-]', '_', str(column_id))
SafeId(column_id) ==
    [i \in 1..Len(column_id) |->
        IF column_id[i] \in Letters \cup Digits \cup {"_", "-"} THEN column_id[i] ELSE "_"]

\* str(counter) inside the f-string
RECURSIVE Decimal(_)
Decimal(n) ==
    IF n < 10 THEN <<CHOOSE c \in Digits : DigitVal(c) = n>>
    ELSE Decimal(n \div 10) \o <<CHOOSE c \in Digits : DigitVal(c) = n % 10>>

\* f"column_{safe_id}"
ColumnUriStr(safe_id) == <<"c", "o", "l", "u", "m", "n", "_">> \o safe_id

UnusedUri_NoCounter(base_uri, counter, used_uris) == base_uri

\* the while loop: base_uri itself (counter 0), then base_uri_1, base_uri_2,
\* ... until a string that is not in used_uris
RECURSIVE UnusedUri(_, _, _)
UnusedUri(base_uri, counter, used_uris) ==
    IF (IF counter = 0 THEN base_uri ELSE base_uri \o <<"_">> \o Decimal(counter))
          \in used_uris
    THEN UnusedUri(base_uri, counter + 1, used_uris)
    ELSE IF counter = 0 THEN base_uri ELSE base_uri \o <<"_">> \o Decimal(counter)

\* URIRef(namespace + local)
Uri(namespace, local) == Node(namespace, 0, 0, local, <<>>)
\* self.base_ns[column_uri_str]
ColumnAnnotationUri(column_uri_str) == Node("base:", 0, 0, "", column_uri_str)
WikidataNs == "http://www.wikidata.org/entity/"
IsURIRef(node) == node.k \notin {"lit", "namelit"}

DatatypeNames ==
    {"string", "integer", "decimal", "float", "double", "boolean", "date", "dateTime",
     "time", "anyURI"}

\* DATATYPE_MAPPING.get(dtype, XSD.string)
DatatypeXsd(dtype) ==
    IF dtype \in DatatypeNames THEN Uri("xsd:", dtype) ELSE Uri("xsd:", "string")

RELATION_MAPPING ==
    [relation \in {"equivalent", "exact", "similar", "instance_of", "subclass_of",
                   "related", "broader", "narrower"} |->
        CASE relation \in {"equivalent", "exact"} -> "owl:equivalentProperty"
          [] relation \in {"similar", "related"} -> "rdfs:seeAlso"
          [] relation = "instance_of" -> "rdf:type"
          [] relation = "subclass_of" -> "rdfs:subClassOf"
          [] relation = "broader" -> "skos:broader"
          [] relation = "narrower" -> "skos:narrower"]

ClassComment == "Represents semantic annotations for CSV columns"

\* the class and the two properties yaml_to_ttl declares
AnnotationVocabulary ==
    {Triple(Uri("base:", "ColumnAnnotation"), "rdf:type", Uri("rdfs:", "Class")),
     Triple(Uri("base:", "ColumnAnnotation"), "rdfs:label", NameLit("Column Annotation")),
     Triple(Uri("base:", "ColumnAnnotation"), "rdfs:comment", NameLit(ClassComment)),
     Triple(Uri("base:", "columnName"), "rdf:type", Uri("rdf:", "Property")),
     Triple(Uri("base:", "columnName"), "rdfs:label", NameLit("column name")),
     Triple(Uri("base:", "columnName"), "rdfs:domain", Uri("base:", "ColumnAnnotation")),
     Triple(Uri("base:", "dataType"), "rdf:type", Uri("rdf:", "Property")),
     Triple(Uri("base:", "dataType"), "rdfs:label", NameLit("data type")),
     Triple(Uri("base:", "dataType"), "rdfs:domain", Uri("base:", "ColumnAnnotation"))}

\* the triples yaml_to_ttl adds for one column; semantic_type is among the
\* keys the loop over additional properties leaves out, and nothing else
\* writes it
ColumnAnnotationTriples(column_uri, column_id, column_data) ==
    {Triple(column_uri, "rdf:type", Uri("base:", "ColumnAnnotation")),
     Triple(column_uri, "base:columnName", Lit(column_id))}
      \cup {Triple(column_uri, "rdfs:label", NameLit(column_data.label[i]))
               : i \in 1..Len(column_data.label)}
      \cup {Triple(column_uri, "dcterms:description", NameLit(column_data.description[i]))
               : i \in 1..Len(column_data.description)}
      \cup {Triple(column_uri, "base:dataType", DatatypeXsd(column_data.data_type[i]))
               : i \in 1..Len(column_data.data_type)}
      \cup {Triple(column_uri, RELATION_MAPPING[column_data.mappings[i].relation],
                   column_data.mappings[i].property)
               : i \in {k \in 1..Len(column_data.mappings) :
                           column_data.mappings[k].relation \in DOMAIN RELATION_MAPPING}}
      \cup {Triple(column_uri,
                   IF column_data.references[i].kind = "wikidata" THEN "owl:sameAs"
                   ELSE "rdfs:seeAlso",
                   column_data.references[i].uri)
               : i \in 1..Len(column_data.references)}
      \cup {Triple(column_uri, "rdfs:comment", NameLit(c)) : c \in column_data.comments.items}

\* the loop over data['columns']; st = [g, used_uris]
RECURSIVE AddColumnAnnotations(_, _, _)
AddColumnAnnotation(st, column, column_uri_str) ==
    [g |-> st.g \cup ColumnAnnotationTriples(ColumnAnnotationUri(column_uri_str),
                                             column.name, column.data),
     used_uris |-> st.used_uris \cup {column_uri_str}]

AddColumnAnnotations(st, columns, i) ==
    IF i > Len(columns) THEN st
    ELSE AddColumnAnnotations(
            AddColumnAnnotation(st, columns[i],
                                UnusedUri(ColumnUriStr(SafeId(columns[i].name)), 0,
                                          st.used_uris)),
            columns, i + 1)

\* yaml_to_ttl: the graph serialized to ttl_path
YamlToTtl(doc) ==
    AddColumnAnnotations([g |-> AnnotationVocabulary, used_uris |-> {}], doc.columns, 1).g

\* the value a loop `for x in g.objects(...): column_data[key] = str(x)`
\* leaves: absent without object, else (one of) the objects
LastOf(values) == IF values = {} THEN <<>> ELSE <<CHOOSE v \in values : TRUE>>

\* the comments ttl_to_yaml returns: nothing, the only one, or a list
CommentsOf(comments) ==
    [kind |-> IF comments = {} THEN "absent"
              ELSE IF Cardinality(comments) > 1 THEN "list" ELSE "str",
     items |-> comments]

\* column_data as ttl_to_yaml builds it for column_uri.  mappings and
\* references are lists in an order rdflib chooses; they are given as sets.
\* No key semantic_type is ever set.
ColumnDataOf(g, column_uri) ==
    [label |-> LastOf({o.n : o \in Objects(g, column_uri, "rdfs:label")}),
     description |-> LastOf({o.n : o \in Objects(g, column_uri, "dcterms:description")}),
     data_type |-> LastOf(UNION {{simple \in DatatypeNames : Uri("xsd:", simple) = o}
                                  : o \in Objects(g, column_uri, "base:dataType")}),
     semantic_type |-> <<>>,
     mappings |-> UNION {{[property |-> o, relation |-> relation]
                            : o \in {x \in Objects(g, column_uri, RELATION_MAPPING[relation]) :
                                       IsURIRef(x) /\ x.k # WikidataNs}}
                         : relation \in DOMAIN RELATION_MAPPING},
     references |-> {[kind |-> "wikidata", uri |-> o]
                       : o \in {x \in UNION {Objects(g, column_uri, RELATION_MAPPING[relation])
                                               : relation \in DOMAIN RELATION_MAPPING} :
                                  x.k = WikidataNs}}
                    \cup {[kind |-> "str", uri |-> o]
                            : o \in {x \in Objects(g, column_uri, "rdfs:seeAlso") : IsURIRef(x)}},
     comments |-> CommentsOf({o.n : o \in Objects(g, column_uri, "rdfs:comment")}
                               \ {ClassComment})]

\* ttl_to_yaml: data['columns'] as the set of its (name, column_data) items;
\* a resource without column name, or with the empty one, is passed over
TtlToYaml(g) ==
    {[name |-> (CHOOSE o \in Objects(g, u, "base:columnName") : TRUE).v,
      data |-> ColumnDataOf(g, u)]
       : u \in {x \in Subjects(g, "rdf:type", Uri("base:", "ColumnAnnotation")) :
                  \E o \in Objects(g, x, "base:columnName") : o.v # <<>>}}

----------------------------------------------------------------------------
(* Mapping format converter (converters/format_converter.py) *)

\* A mappings document is [columns]: a sequence of [name, label] entries,
\* the `columns` dictionary of the YAML form. A file is [data, valid,
\* format]: the document it holds and whether it parses in its format.

Formats == {"ttl", "yaml", "jsonld"}

\* Literal(text, lang="en")
LangLit(text) == Node("lit@en", 0, 0, text, <<>>)

\* FDIC[f"column_{column_name}"]
MappingColumnUri(column_name) == Uri("fdic:column_", column_name)

OntologyUri == Uri("http://example.org/fdic/", "column-mappings")

\* the head of _dict_to_rdf
OntologyTriples ==
    {Triple(OntologyUri, "rdf:type", Class("owl:Ontology")),
     Triple(OntologyUri, "rdfs:label", LangLit("FDIC Column Mappings")),
     Triple(OntologyUri, "dcterms:title", LangLit("FDIC CSV Column Semantic Mappings"))}

\* _add_column_mappings, for one entry of the dictionary
MappingColumnTriples(column) ==
    {Triple(MappingColumnUri(column.name), "rdf:type", Class("fdic:ColumnMapping")),
     Triple(MappingColumnUri(column.name), "fdic:columnName", NameLit(column.name)),
     Triple(MappingColumnUri(column.name), "rdfs:label", LangLit(column.label)),
     Triple(MappingColumnUri(column.name), "dcterms:description", NameLit("")),
     Triple(MappingColumnUri(column.name), "fdic:semanticType", NameLit("")),
     Triple(MappingColumnUri(column.name), "fdic:dataType", NameLit(""))}

DictToRdf_Cleared(g, data) ==
    OntologyTriples \cup UNION {MappingColumnTriples(data.columns[i]) : i \in 1..Len(data.columns)}

\* _dict_to_rdf: the triples are added to the graph of the instance
DictToRdf(g, data) ==
    g \cup OntologyTriples
      \cup UNION {MappingColumnTriples(data.columns[i]) : i \in 1..Len(data.columns)}

\* the triples of a Turtle file that holds the document
TurtleTriples(data) == DictToRdf({}, data)

\* the triples of a JSON-LD file dict_to_jsonld wrote for the document: only
\* the keys the context of _build_jsonld_context defines become triples
JsonldTriples(data) ==
    {Triple(OntologyUri, "rdf:type", Class("owl:Ontology"))}
      \cup UNION {{Triple(MappingColumnUri(data.columns[i].name), "rdf:type",
                          Class("fdic:ColumnMapping")),
                   Triple(MappingColumnUri(data.columns[i].name), "fdic:columnName",
                          NameLit(data.columns[i].name)),
                   Triple(MappingColumnUri(data.columns[i].name), "fdic:semanticType",
                          NameLit("")),
                   Triple(MappingColumnUri(data.columns[i].name), "fdic:dataType",
                          NameLit(""))}
                  : i \in 1..Len(data.columns)}

\* _get_literal(subject, predicate): one value of the graph, "" for none
GetLiteral(g, subject, predicate) ==
    IF Objects(g, subject, predicate) = {} THEN ""
    ELSE (CHOOSE o \in Objects(g, subject, predicate) : TRUE).n

\* _extract_column_mappings: the dictionary keyed by column name, as the set
\* of its [name, label] entries
ExtractColumnMappings(g) ==
    {[name |-> GetLiteral(g, column_uri, "fdic:columnName"),
      label |-> GetLiteral(g, column_uri, "rdfs:label")]
       : column_uri \in {c \in Subjects(g, "rdf:type", Class("fdic:ColumnMapping")) :
                            GetLiteral(g, c, "fdic:columnName") # ""}}

\* ttl_to_dict: the graph after the call and the dictionary returned
MappingTtlToDict(g, file) ==
    [graph |-> g \cup TurtleTriples(file.data),
     out |-> [format |-> "dict", triples |-> {},
              columns |-> ExtractColumnMappings(g \cup TurtleTriples(file.data))]]

\* yaml_to_ttl: the graph after the call and the Turtle file written
MappingYamlToTtl(g, file) ==
    [graph |-> DictToRdf(g, file.data),
     out |-> [format |-> "ttl", triples |-> DictToRdf(g, file.data), columns |-> {}]]

\* jsonld_to_ttl: the graph after the call and the Turtle file written
MappingJsonldToTtl(g, file) ==
    [graph |-> g \cup JsonldTriples(file.data),
     out |-> [format |-> "ttl", triples |-> g \cup JsonldTriples(file.data), columns |-> {}]]

\* dict_to_yaml / dict_to_jsonld: the file written from a dictionary
DictFile(format, columns) == [format |-> format, triples |-> {}, columns |-> columns]

\* the entries of a document as ttl_to_dict would return them
DataColumns(data) == {data.columns[i] : i \in 1..Len(data.columns)}

\* an exception leaves main: nothing more is written or logged
MainRaised(run, error) == [run EXCEPT !.pc = "failed", !.error = error]

\* a writer ran, then log.info("Conversion complete: ...")
MainWritten(run, file) ==
    IF run.writable
    THEN [run EXCEPT !.pc = "returned", !.output = file, !.written = TRUE, !.complete = TRUE]
    ELSE MainRaised(run, "OSError")

\* no branch of the dispatch matched: log.info("Conversion complete: ...")
MainNothingWritten(run) == [run EXCEPT !.pc = "returned", !.complete = TRUE]

\* the `Perform conversion` block of main, for formats given or detected
MainDispatch(run) ==
    IF run.from = "ttl"
    THEN IF ~run.input.valid THEN MainRaised(run, "BadSyntax")
         ELSE IF run.to = "yaml"
         THEN MainWritten([run EXCEPT !.graph = MappingTtlToDict({}, run.input).graph],
                          DictFile("yaml", MappingTtlToDict({}, run.input).out.columns))
         ELSE IF run.to = "jsonld"
         THEN MainWritten([run EXCEPT !.graph = MappingTtlToDict({}, run.input).graph],
                          DictFile("jsonld", MappingTtlToDict({}, run.input).out.columns))
         ELSE MainNothingWritten([run EXCEPT !.graph = MappingTtlToDict({}, run.input).graph])
    ELSE IF run.from = "yaml"
    THEN IF ~run.input.valid THEN MainRaised(run, "YAMLError")
         ELSE IF run.to = "ttl"
         THEN IF run.writable
              THEN MainWritten([run EXCEPT !.graph = MappingYamlToTtl({}, run.input).graph],
                               MappingYamlToTtl({}, run.input).out)
              ELSE MainRaised([run EXCEPT !.graph = MappingYamlToTtl({}, run.input).graph],
                              "OSError")
         ELSE IF run.to = "jsonld"
         THEN MainWritten(run, DictFile("jsonld", DataColumns(run.input.data)))
         ELSE MainNothingWritten(run)
    ELSE IF ~run.input.valid THEN MainRaised(run, "JSONDecodeError")
         ELSE IF run.to = "ttl"
         THEN MainWritten([run EXCEPT !.graph = MappingJsonldToTtl({}, run.input).graph],
                          MappingJsonldToTtl({}, run.input).out)
         \* ttl_to_dict(input_path) parses the JSON-LD file as Turtle
         ELSE MainRaised([run EXCEPT !.graph = JsonldTriples(run.input.data)], "BadSyntax")

----------------------------------------------------------------------------
(* Viewer server (serve_viewer.py) *)

\* One run is [pc, host, port, no_browser, fs, port_free, exit, cwd, bound,
\* browser, printed, interrupted, closed]: fs = [kind, files, valid] is what the directory
\* argument names ("missing", "file" or "dir"), the names it holds and
\* whether its manifest.json parses as JSON; port_free whether the address
\* can be bound; exit the exit status (None while running); cwd the working
\* directory; bound whether HTTPServer(...) returned a server; interrupted
\* whether a KeyboardInterrupt arrived; closed whether server.socket.close()
\* ran.

MissingFiles_ManifestOnly(fs) ==
    SelectSeq(<<"manifest.json">>, LAMBDA file : file \notin fs.files)

\* the loop over required_files
MissingFiles(fs) ==
    SelectSeq(<<"manifest.json", "index.html">>, LAMBDA file : file \notin fs.files)

\* sys.exit(1) after an error message; an exception nothing catches ends
\* the interpreter with the same status
ServeExit(run, message) == [run EXCEPT !.pc = "exited", !.exit = 1, !.printed = message]

\* os.chdir(viewer_dir) and the try block up to serve_forever()
ServeStart(run) ==
    IF ~run.port_free
    THEN ServeExit([run EXCEPT !.cwd = "viewer_dir"], "Error starting server")
    ELSE [run EXCEPT !.pc = "serving", !.cwd = "viewer_dir", !.bound = TRUE,
                     !.browser = ~run.no_browser]

\* the required files are there: main goes on past the checks
ChecksPass(run) == run.fs.kind = "dir" /\ MissingFiles(run.fs) = <<>>

\* the statements after the checks during which Ctrl+C may arrive before
\* serve_forever() runs: find_manifest_info and os.chdir stand before the
\* try block; HTTPServer(...) and webbrowser.open are inside it, the first
\* before `server` is bound.  A manifest that does not parse ends main in
\* find_manifest_info, a port in use in HTTPServer(...).
InterruptPoints(run) ==
    {"find_manifest_info"}
      \cup (IF run.fs.valid THEN {"chdir", "HTTPServer"} ELSE {})
      \cup (IF run.fs.valid /\ run.port_free /\ ~run.no_browser
            THEN {"webbrowser.open"} ELSE {})

\* main when KeyboardInterrupt is raised at point; status is the exit status
\* the interpreter gives an uncaught KeyboardInterrupt.  In the handler
\* `except KeyboardInterrupt` the name server is unbound while HTTPServer(...)
\* has not returned, and server.socket.close() raises UnboundLocalError.
ServeInterruptedAt(run, point, status) ==
    CASE point \in {"find_manifest_info", "chdir"} ->
           [run EXCEPT !.pc = "exited", !.interrupted = TRUE, !.exit = status,
                       !.printed = "KeyboardInterrupt"]
      [] point = "HTTPServer" ->
           [run EXCEPT !.pc = "exited", !.interrupted = TRUE, !.exit = 1,
                       !.cwd = "viewer_dir", !.printed = "UnboundLocalError"]
      [] point = "webbrowser.open" ->
           [run EXCEPT !.pc = "stopped", !.interrupted = TRUE, !.exit = 0,
                       !.cwd = "viewer_dir", !.bound = TRUE, !.closed = TRUE,
                       !.printed = "Server stopped by user"]

\* main() up to serve_forever(), or to the exit
ServeMainOutcome(run) ==
    IF run.fs.kind = "missing" THEN ServeExit(run, "does not exist")
    ELSE IF run.fs.kind # "dir" THEN ServeExit(run, "is not a directory")
    ELSE IF MissingFiles(run.fs) # <<>> THEN ServeExit(run, "Missing required files")
    ELSE IF "manifest.json" \in run.fs.files /\ ~run.fs.valid
    THEN ServeExit(run, "JSONDecodeError")
    ELSE ServeStart(run)

----------------------------------------------------------------------------
(* Inputs of the conversion *)

CsvValues == {<<>>, <<" ">>, <<"7">>}

RECURSIVE SeqsUpTo(_, _)
\* the sequences over S of length at most n
SeqsUpTo(S, n) ==
    IF n = 0 THEN {<<>>}
    ELSE LET shorter == SeqsUpTo(S, n - 1)
         IN  shorter \cup {Append(q, x) : q \in {r \in shorter : Len(r) = n - 1}, x \in S}

SeqsOfLen(S, n) == {q \in SeqsUpTo(S, n) : Len(q) = n}

\* header records of the conversion specification: pairwise distinct column
\* names of the FDIC file, in the order of that file
HeaderRecords == {<<"X">>, <<"CERT">>, <<"NAME", "X">>}

\* data records with as many fields as the header
FullRecords(n, values) == SeqsOfLen(values, n)

\* data records one field short of the header or with one surplus field,
\* every field holding v
RaggedRecords(n, v) ==
    (IF n > 1 THEN {[i \in 1..(n - 1) |-> v]} ELSE {}) \cup {[i \in 1..(n + 1) |-> v]}

\* bodies of at most maxRows records; only the last record may be ragged
Bodies(n, maxRows, values) ==
    SeqsUpTo(FullRecords(n, values), maxRows)
      \cup {Append(rs, r) : rs \in SeqsUpTo(FullRecords(n, values), maxRows - 1),
                            r \in RaggedRecords(n, <<"7">>)}

CsvFiles(maxRows, values) ==
    UNION {{[bom |-> FALSE, headers |-> h, rows |-> rs] : rs \in Bodies(Len(h), maxRows, values)}
           : h \in HeaderRecords}

\* column_mappings.ttl as the generator loads it: no file, or the mappings of
\* the FDIC columns
NoColumnMappings == [c \in {} |-> [type |-> ""]]
DefaultColumnMappings ==
    [c \in {"NAME", "X", "CERT"} |->
        CASE c = "NAME" -> [type |-> "bank_name", data_type |-> "string",
                            description |-> "Bank name",
                            ontology_ref |-> "fibo"]
          [] c = "X" -> [type |-> "coordinate", data_type |-> "decimal",
                         description |-> "Longitude",
                         ontology_ref |-> "geosparql"]
          [] c = "CERT" -> [type |-> "fdic_certificate", data_type |-> "integer",
                            description |-> "FDIC certificate number",
                            ontology_ref |-> "fibo"]]

\* annotations file: absent, or a list of annotations (two of them for the
\* same column name)
AnnotationFiles ==
    {[exists |-> FALSE, items |-> <<>>],
     [exists |-> TRUE,
      items |-> <<[id |-> 1, name |-> "NAME", data_type |-> "string"],
                  [id |-> 2, name |-> "X", data_type |-> "decimal"],
                  [id |-> 3, name |-> "NAME", data_type |-> "string"]>>]}

----------------------------------------------------------------------------
(* State *)

VARIABLES
    csv,          \* the CSV file on disk: [headers, rows]
    max_rows,     \* the max_rows argument of process_csv
    rows_per_chunk, \* the rows_per_chunk argument of CSV2RDF.process_csv
    cm,           \* FDICRDFGenerator.column_mappings
    ann,          \* the annotations file
    now,          \* the clock read by datetime.now()
    pc,           \* position of the caller: "start", "processed", "viewed", "done"
    variant,      \* the generator in use: "graph", "simple", "chunked", "" before the choice
    graph,        \* the generator's graph
    result,       \* what process_csv returned (err names an escaped exception)
    files,        \* CSV2RDF output: row lines of full.ttl, chunk files, manifest
    viewer,       \* output of generate_viewer_output
    rows_per_page, \* the rows_per_page argument of generate_viewer_output
    job,          \* one call of the job adapter: arguments, environment and outcome
    calls,        \* the process_csv calls made so far, oldest first
    template,     \* whether the viewer template directory of the variant exists
                  \* (viewer_template beside csv2rdf.py, static/rdftab for the others)
    conv,         \* one use of AnnotationConverter: YAML document, TTL graph, YAML read back
    serve,        \* one run of serve_viewer.py: arguments, file system and outcome
    fmt,          \* the FDICMappingConverter in use and the run of its main()
    log           \* the missing-file conditions logged so far

vars == <<csv, max_rows, rows_per_chunk, cm, ann, now, pc, variant, graph, result,
          files, viewer, rows_per_page, job, calls, template, fmt, conv, serve, log>>

NoResult ==
    [err |-> NoError, rows_processed |-> 0, columns_mapped |-> 0, triples_generated |-> 0]

NoManifest == [written |-> FALSE, row_count |-> 0, chunk_size |-> 0, chunks |-> <<>>]
NoViewerDir == [exists |-> FALSE, files |-> {}]
NoFiles == [full |-> <<>>, chunks |-> <<>>, manifest |-> NoManifest, viewer_dir |-> NoViewerDir]

\* no call of the job adapter
NoJob ==
    [input_files |-> <<>>, disk |-> [kind |-> "missing", n |-> 0, value |-> <<>>],
     fault |-> "", done |-> FALSE, raised |-> FALSE, err |-> NoError,
     returned |-> [alerts |-> <<>>, reports |-> <<>>],
     written |-> {}, generators |-> 0, csv_file |-> <<>>, max_rows |-> None,
     metadata |-> NoMetadata, links |-> {},
     report |-> [pc |-> "none", column_mappings |-> NoColumnMappings, rows |-> {}]]

\* AnnotationConverter not used
\* no FDICMappingConverter made, main not run
NoFmt ==
    [pc |-> "none", from |-> "", to |-> "", input |-> [data |-> [columns |-> <<>>], valid |-> FALSE],
     writable |-> FALSE, graph |-> {}, output |-> DictFile("", {}), written |-> FALSE,
     complete |-> FALSE, error |-> "", calls |-> <<>>]

NoConv == [pc |-> "yaml", doc |-> [columns |-> <<>>], ttl |-> {}, back |-> {}]

\* serve_viewer.py not run
NoServe ==
    [pc |-> "none", host |-> "", port |-> 0, no_browser |-> FALSE,
     fs |-> [kind |-> "missing", files |-> {}, valid |-> FALSE], port_free |-> TRUE,
     exit |-> None, cwd |-> "", bound |-> FALSE, browser |-> FALSE, printed |-> "",
     interrupted |-> FALSE, closed |-> FALSE]

\* what process_csv and the viewer generators log when a file they look
\* for is absent
MappingsNotFound(m) ==
    IF m = NoColumnMappings THEN {"Column mappings file not found"} ELSE {}
AnnotationsNotFound(a) ==
    IF a.exists THEN {} ELSE {"Annotations file not found"}
BuildNotFound(t) ==
    IF t THEN {} ELSE {"RDFtab build directory not found"}

Logged(messages) == log' = log \cup messages

\* nothing converted yet, by a generator whose files may or may not exist
Unstarted ==
    /\ job = NoJob
    /\ calls = <<>>
    /\ log = {}
    /\ conv = NoConv
    /\ serve = NoServe
    /\ fmt = NoFmt
    /\ now = 0
    /\ pc = "start"
    /\ variant = ""
    /\ graph = {}
    /\ result = NoResult
    /\ files = NoFiles
    /\ viewer = NoViewer
    /\ rows_per_page = 0
    /\ rows_per_chunk = 0
    /\ cm = NoColumnMappings
    /\ ann \in AnnotationFiles

Fresh == Unstarted /\ template = TRUE

\* no generator in use: the state beside the converter or the server
NoConversion ==
    /\ csv = [bom |-> FALSE, headers |-> <<>>, rows |-> <<>>]
    /\ max_rows = None
    /\ cm = NoColumnMappings
    /\ ann = [exists |-> FALSE, items |-> <<>>]
    /\ now = 0
    /\ pc = "start"
    /\ variant = ""
    /\ graph = {}
    /\ result = NoResult
    /\ files = NoFiles
    /\ viewer = NoViewer
    /\ rows_per_page = 0
    /\ rows_per_chunk = 0
    /\ job = NoJob
    /\ calls = <<>>
    /\ log = {}
    /\ template = TRUE

----------------------------------------------------------------------------
(* Conversion: one process_csv call on a fresh generator of each kind *)

MaxRowsArgs == {None} \cup 0..MaxRows

Init ==
    /\ csv \in CsvFiles(MaxRows, CsvValues)
    /\ max_rows \in MaxRowsArgs
    /\ Fresh

\* the generator's graph and the value returned, after process_csv left r
Processed(r) ==
    /\ graph' = r.g
    /\ result' = [err |-> r.err, rows_processed |-> r.rows_processed,
                  columns_mapped |-> r.columns_mapped,
                  triples_generated |-> r.triples_generated]

\* FDICRDFGenerator(result_uri).process_csv(csv_path, max_rows)
GraphProcess ==
    /\ pc = "start"
    /\ \E m \in {NoColumnMappings, DefaultColumnMappings} :
         /\ cm' = m
         /\ Logged(MappingsNotFound(m))
         /\ Processed(GraphProcessCsv({}, csv, max_rows, m, now, 1))
    /\ variant' = "graph"
    /\ pc' = "processed"
    /\ now' = now + 1
    /\ UNCHANGED <<csv, max_rows, rows_per_chunk, ann, files, viewer, rows_per_page, job, calls, template, fmt, conv, serve>>

\* SimpleFDICRDFGenerator().process_csv(csv_path, max_rows)
SimpleProcess ==
    /\ pc = "start"
    /\ Processed(SimpleProcessCsv({}, csv, max_rows, ann, now, 1))
    /\ variant' = "simple"
    /\ pc' = "processed"
    /\ now' = now + 1
    /\ UNCHANGED <<csv, max_rows, rows_per_chunk, cm, ann, files, viewer, rows_per_page, job, calls, template, fmt, conv, serve, log>>

\* CSV2RDF.generate_viewer, called at the end of process_csv: the viewer
\* directory and the files copied into it
GenerateViewer(t, r) ==
    [exists |-> TRUE,
     files |-> IF t
               THEN {"viewer_template/*", "table.ttl"}
                      \cup (IF r.manifest.written THEN {"manifest.json"} ELSE {})
                      \cup {n \in {"chunk_0000.ttl"} :
                              \E k \in 1..Len(r.manifest.chunks) : r.manifest.chunks[k] = n}
               ELSE {}]

\* the files CSV2RDF.process_csv left
ChunkedFiles(r) ==
    files' = [full |-> r.full, chunks |-> r.chunks, manifest |-> r.manifest,
              viewer_dir |-> IF r.err = NoError THEN GenerateViewer(template, r)
                             ELSE NoViewerDir]

\* the warnings of main (annotations file) and generate_viewer (template)
ChunkedLogged(r) ==
    Logged(AnnotationsNotFound(ann)
             \cup (IF r.err = NoError /\ ~template
                   THEN {"Viewer template not found"} ELSE {}))

ChunkedProcessed(r) == Processed(r) /\ ChunkedFiles(r) /\ ChunkedLogged(r)

\* CSV2RDF(output_dir), load_annotations when the file exists, then
\* process_csv(csv_path, max_rows, rows_per_chunk)
ChunkedProcess ==
    /\ pc = "start"
    /\ \E c \in 1..MaxChunkSize :
         /\ rows_per_chunk' = c
         /\ ChunkedProcessed(ChunkedProcessCsv({}, csv, max_rows, c,
                                               IF ann.exists THEN ann.items ELSE <<>>, now))
    /\ variant' = "chunked"
    /\ pc' = "processed"
    /\ now' = now + 1
    /\ UNCHANGED <<csv, max_rows, cm, ann, viewer, rows_per_page, job, calls, template, fmt, conv, serve>>

Next == GraphProcess \/ SimpleProcess \/ ChunkedProcess

Spec == Init /\ [][Next]_vars

----------------------------------------------------------------------------
(* Viewer: process_csv, then generate_viewer_output *)

\* data records of the viewer specification, under the header NAME,X
ViewerRecords == {<<<<"7">>, <<>>>>, <<<<>>, <<"7">>>>, <<<<>>, <<>>>>}

ViewerCsvFiles ==
    {[bom |-> FALSE, headers |-> <<"NAME", "X">>, rows |-> rs] : rs \in SeqsUpTo(ViewerRecords, MaxViewerRows)}

InitViewer ==
    /\ csv \in ViewerCsvFiles
    /\ max_rows \in {None, 2}
    /\ Fresh

\* FDICRDFGenerator(result_uri).process_csv(csv_path, max_rows)
ViewerGraphProcess ==
    /\ pc = "start"
    /\ cm' = DefaultColumnMappings
    /\ Processed(GraphProcessCsv({}, csv, max_rows, DefaultColumnMappings, now, 1))
    /\ variant' = "graph"
    /\ pc' = "processed"
    /\ now' = now + 1
    /\ UNCHANGED <<csv, max_rows, rows_per_chunk, ann, files, viewer, rows_per_page, job, calls, template, fmt, conv, serve, log>>

\* SimpleFDICRDFGenerator().process_csv(csv_path, max_rows)
ViewerSimpleProcess ==
    /\ pc = "start"
    /\ Processed(SimpleProcessCsv({}, csv, max_rows, ann, now, 1))
    /\ variant' = "simple"
    /\ pc' = "processed"
    /\ now' = now + 1
    /\ UNCHANGED <<csv, max_rows, rows_per_chunk, cm, ann, files, viewer, rows_per_page, job, calls, template, fmt, conv, serve, log>>

\* FDICRDFGenerator.generate_viewer_output(csv_path, output_dir, rows_per_page),
\* on a generator that has or has not converted the file
GraphGenerateViewer ==
    /\ pc = "start" \/ (pc = "processed" /\ variant = "graph")
    /\ \E p \in 1..MaxPageSize :
         /\ rows_per_page' = p
         /\ viewer' = GraphGenerateViewerOutput(csv, p)
    /\ Logged(BuildNotFound(template))
    /\ variant' = "graph"
    /\ pc' = "viewed"
    /\ UNCHANGED <<csv, max_rows, rows_per_chunk, cm, ann, now, graph, result, files, job, calls, template, fmt, conv, serve>>

\* SimpleFDICRDFGenerator.generate_viewer_output(output_dir, rows_per_page),
\* on a generator that has or has not converted the file
SimpleGenerateViewer ==
    /\ pc = "start" \/ (pc = "processed" /\ variant = "simple")
    /\ \E p \in 1..MaxPageSize :
         /\ rows_per_page' = p
         /\ viewer' = SimpleGenerateViewerOutput(graph, p)
    /\ Logged(BuildNotFound(template))
    /\ variant' = "simple"
    /\ pc' = "viewed"
    /\ UNCHANGED <<csv, max_rows, rows_per_chunk, cm, ann, now, graph, result, files, job, calls, template, fmt, conv, serve>>

NextViewer ==
    ViewerGraphProcess \/ ViewerSimpleProcess \/ GraphGenerateViewer \/ SimpleGenerateViewer

SpecViewer == InitViewer /\ [][NextViewer]_vars

----------------------------------------------------------------------------
(* One cell: a column with its mapping and one value *)

CellColumns == {"X", "Y", "LONGITUDE", "LATITUDE", "NAME", "CERT"}
SemanticTypes == {"coordinate", "bank_name", "fdic_certificate"}
DataTypes == {"decimal", "integer", "string"}
CellValues == {<<"7">>, <<"1", ".", "5">>, <<"-", "2">>, <<"x">>}

\* column_mappings as _load_column_mappings builds it from a mappings file
\* that declares the column
CellMappings(column) ==
    {[c \in {column} |-> [type |-> t, data_type |-> d, description |-> "",
                          ontology_ref |-> ""]] :
       t \in SemanticTypes, d \in DataTypes}

\* a generator with its column mappings loaded and a CSV file of one column
\* and one data row
InitCell ==
    /\ \E column \in CellColumns :
         /\ csv \in {[bom |-> FALSE, headers |-> <<column>>, rows |-> <<<<v>>>>] : v \in CellValues}
         /\ cm \in {NoColumnMappings} \cup CellMappings(column)
    /\ max_rows = None
    /\ ann = [exists |-> FALSE, items |-> <<>>]
    /\ now = 0
    /\ pc = "start"
    /\ variant = ""
    /\ graph = {}
    /\ result = NoResult
    /\ files = NoFiles
    /\ viewer = NoViewer
    /\ rows_per_page = 0
    /\ rows_per_chunk = 0
    /\ job = NoJob
    /\ calls = <<>>
    /\ log = {}
    /\ template = TRUE
    /\ conv = NoConv
    /\ serve = NoServe
    /\ fmt = NoFmt

\* FDICRDFGenerator.process_csv(csv_path) with the mappings loaded
CellProcess ==
    /\ pc = "start"
    /\ Processed(GraphProcessCsv({}, csv, max_rows, cm, now, 1))
    /\ Logged(MappingsNotFound(cm))
    /\ variant' = "graph"
    /\ pc' = "processed"
    /\ now' = now + 1
    /\ UNCHANGED <<csv, max_rows, rows_per_chunk, cm, ann, files, viewer, rows_per_page, job, calls, template, fmt, conv, serve>>

NextCell == CellProcess

SpecCell == InitCell /\ [][NextCell]_vars

----------------------------------------------------------------------------
(* The job adapter called by the worker *)

InputPaths ==
    {<<"a", ".", "c", "s", "v">>, <<"B", ".", "C", "S", "V">>,
     <<"n", ".", "t", "x", "t">>, <<"c", "s", "v">>}

\* what the file system holds at a CSV path
Disks ==
    {[kind |-> "missing", n |-> 0, value |-> <<>>],
     [kind |-> "empty", n |-> 0, value |-> <<>>],
     [kind |-> "rows", n |-> 1, value |-> <<"x">>]}
      \cup {[kind |-> "rows", n |-> n, value |-> <<"7">>] : n \in {0, 1, JobRowCap, JobRowCap + 1}}

Faults == {""} \cup {OutputFiles[i] : i \in 1..Len(OutputFiles)}

InitJob ==
    /\ \E fs \in SeqsUpTo(InputPaths, MaxInputFiles), d \in Disks, fault \in Faults :
          job = [NoJob EXCEPT !.input_files = fs, !.disk = d, !.fault = fault]
    /\ cm \in {NoColumnMappings, DefaultColumnMappings}
    /\ csv = (IF job.disk.kind = "rows" THEN JobCsv(job.disk)
              ELSE [bom |-> FALSE, headers |-> <<>>, rows |-> <<>>])
    /\ max_rows = None
    /\ calls = <<>>
    /\ log = {}
    /\ template = TRUE
    /\ conv = NoConv
    /\ serve = NoServe
    /\ fmt = NoFmt
    /\ ann = [exists |-> FALSE, items |-> <<>>]
    /\ now = 0
    /\ pc = "start"
    /\ variant = ""
    /\ graph = {}
    /\ result = NoResult
    /\ files = NoFiles
    /\ viewer = NoViewer
    /\ rows_per_page = 0
    /\ rows_per_chunk = 0

\* the generator's graph and result once the adapter has returned j
JobDone(j, r) ==
    /\ job' = j
    /\ IF j.generators = 0
       THEN UNCHANGED <<graph, result, variant, now, log>>
       ELSE Processed(r) /\ Logged(MappingsNotFound(cm)) /\ variant' = "graph" /\ now' = now + 1

JobCall(r) == JobDone(ProcessFdicOmgJob(job, r), r)

\* main(input_files, output_path, params): one call of process_fdic_omg_job
JobMain ==
    /\ pc = "start"
    /\ ~job.done
    /\ JobCall(JobGenerate(job.disk, cm, now))
    /\ pc' = "done"
    /\ UNCHANGED <<csv, max_rows, rows_per_chunk, cm, ann, files, viewer, rows_per_page, calls, template, fmt, conv, serve>>

NextJob == JobMain

SpecJob == InitJob /\ [][NextJob]_vars

----------------------------------------------------------------------------
(* HTML report: _generate_html_report on the results of a conversion *)

ReportColumns == {"NAME", "X", "CITY"}

ReportRefs ==
    {<<"f", "i", "b", "o">>,
     <<"g", "e", "o", "s", "p", "a", "r", "q", "l">>,
     <<"g", "e", "o", "n", "a", "m", "e", "s">>}

\* results['column_mappings']: mappings of some of the columns
ReportMappings ==
    UNION {[cols -> {[type |-> "t", ontology_ref |-> ref] : ref \in ReportRefs}]
           : cols \in SUBSET ReportColumns}

InitReport ==
    /\ job \in {[NoJob EXCEPT !.report = [pc |-> "results", column_mappings |-> m,
                                          rows |-> {}]] : m \in ReportMappings}
    /\ csv = [bom |-> FALSE, headers |-> <<>>, rows |-> <<>>]
    /\ max_rows = None
    /\ cm = NoColumnMappings
    /\ ann = [exists |-> FALSE, items |-> <<>>]
    /\ now = 0
    /\ pc = "start"
    /\ variant = ""
    /\ graph = {}
    /\ result = NoResult
    /\ files = NoFiles
    /\ viewer = NoViewer
    /\ rows_per_page = 0
    /\ rows_per_chunk = 0
    /\ calls = <<>>
    /\ log = {}
    /\ template = TRUE
    /\ conv = NoConv
    /\ serve = NoServe
    /\ fmt = NoFmt

\* html_report = _generate_html_report(results, output_files, result_uri)
ReportGenerate ==
    /\ job.report.pc = "results"
    /\ job' = [job EXCEPT !.report = GenerateHtmlReport(job.report)]
    /\ UNCHANGED <<csv, max_rows, rows_per_chunk, cm, ann, now, pc, variant, graph, result,
                   files, viewer, rows_per_page, calls, template, fmt, conv, serve, log>>

NextReport == ReportGenerate

SpecReport == InitReport /\ [][NextReport]_vars

----------------------------------------------------------------------------
(* Conversion of files with and without a byte-order mark *)

\* the same content saved with and without a leading UTF-8 byte-order mark
BomCsvFiles ==
    {[f EXCEPT !.bom = b] : f \in CsvFiles(1, {<<"7">>}), b \in BOOLEAN}

InitBom ==
    /\ csv \in BomCsvFiles
    /\ max_rows \in {None, 1}
    /\ Fresh

SpecBom == InitBom /\ [][Next]_vars

----------------------------------------------------------------------------
(* Repeated conversion: several process_csv calls, each on a fresh generator *)
(* or on the generator that served the call before                         *)

RunFiles ==
    {[bom |-> FALSE, headers |-> <<"X">>, rows |-> <<>>],
     [bom |-> FALSE, headers |-> <<"X">>, rows |-> <<<<<<"7">>>>>>],
     [bom |-> FALSE, headers |-> <<"NAME", "X">>, rows |-> <<<<<<"7">>, <<>>>>>>]}

\* the names BNode() has not handed out yet: rdflib draws every blank node
\* name from uuid4, so no call sees a name an earlier call has seen
UnusedLabels == (1..MaxCalls) \ {calls[k].label : k \in 1..Len(calls)}

InitRuns ==
    /\ csv \in RunFiles
    /\ max_rows = None
    /\ Fresh

\* one more call has returned: r is what process_csv left, g the graph the
\* generator held when it was called ({} for a generator just constructed)
Called(v, f, label, g, r, full) ==
    /\ calls' = Append(calls, [variant |-> v, fresh |-> (g = {}), csv |-> f, label |-> label,
                               at |-> now, graph |-> r.g, full |-> full,
                               triples_generated |-> r.triples_generated])
    /\ csv' = f
    /\ variant' = v
    /\ pc' = "processed"
    /\ now' = now + 1

\* the files a call may be given: the first call converts csv
FilesOfCall == IF calls = <<>> THEN {csv} ELSE RunFiles

\* the graphs a call of generator v may start from: the empty graph of a new
\* generator, or the graph of the generator of the call before
GraphsOfCall(v) == {{}} \cup (IF calls # <<>> /\ variant = v THEN {graph} ELSE {})

\* FDICRDFGenerator.process_csv(csv_path)
RunGraph ==
    /\ Len(calls) < MaxCalls
    /\ \E f \in FilesOfCall, label \in UnusedLabels, g \in GraphsOfCall("graph") :
         /\ Processed(GraphProcessCsv(g, f, max_rows, cm, now, label))
         /\ Called("graph", f, label, g, GraphProcessCsv(g, f, max_rows, cm, now, label), <<>>)
    /\ Logged(MappingsNotFound(cm))
    /\ UNCHANGED <<max_rows, rows_per_chunk, cm, ann, files, viewer, rows_per_page, job, template, fmt, conv, serve>>

\* SimpleFDICRDFGenerator.process_csv(csv_path)
RunSimple ==
    /\ Len(calls) < MaxCalls
    /\ \E f \in FilesOfCall, label \in UnusedLabels, g \in GraphsOfCall("simple") :
         /\ Processed(SimpleProcessCsv(g, f, max_rows, ann, now, label))
         /\ Called("simple", f, label, g, SimpleProcessCsv(g, f, max_rows, ann, now, label), <<>>)
    /\ UNCHANGED <<max_rows, rows_per_chunk, cm, ann, files, viewer, rows_per_page, job, template, fmt, conv, serve, log>>

\* CSV2RDF(output_dir).process_csv(csv_path, rows_per_chunk=MaxChunkSize)
RunChunkedCalled(f, label, r) ==
    ChunkedProcessed(r) /\ Called("chunked", f, label, {}, r, r.full)

RunChunked ==
    /\ Len(calls) < MaxCalls
    /\ \E f \in FilesOfCall, label \in UnusedLabels :
         RunChunkedCalled(f, label,
                          ChunkedProcessCsv({}, f, max_rows, MaxChunkSize,
                                            IF ann.exists THEN ann.items ELSE <<>>, now))
    /\ rows_per_chunk' = MaxChunkSize
    /\ UNCHANGED <<max_rows, cm, ann, viewer, rows_per_page, job, template, fmt, conv, serve>>

NextRuns == RunGraph \/ RunSimple \/ RunChunked

SpecRuns == InitRuns /\ [][NextRuns]_vars

----------------------------------------------------------------------------
(* Chunking: CSV2RDF.process_csv over files of up to MaxChunkRows rows *)

MaxChunkRows == 11

\* header X and n data rows, every second one with an empty field
ChunkCsvFiles ==
    {[bom |-> FALSE, headers |-> <<"X">>,
      rows |-> [i \in 1..n |-> IF i % 2 = 0 THEN <<<<>>>> ELSE <<<<"7">>>>]]
       : n \in 0..MaxChunkRows}

InitChunks ==
    /\ csv \in ChunkCsvFiles
    /\ max_rows \in {None, 0, 3}
    /\ Fresh

SpecChunks == InitChunks /\ [][Next]_vars

----------------------------------------------------------------------------
(* Row shapes: CSV2RDF.process_csv over repeated header names, short and
   long records, and values of every literal type *)

MaxShapeRows == 2

ShapeHeaders == {<<"A", "B">>, <<"A", "A", "B">>, <<"A", "B", "A">>}

\* records of n fields, one field short, and one field long; the fields of
\* a record differ from each other
ShapeRecords(n) ==
    {SubSeq(<<<<"1">>, <<"2">>, <<"3">>, <<"4">>>>, 1, k) : k \in {n - 1, n, n + 1}}
      \cup {SubSeq(<<<<"x">>, <<"1", ".", "5">>, <<" ">>, <<"-", "2">>>>, 1, n)}

ShapeCsvFiles ==
    UNION {{[bom |-> FALSE, headers |-> h, rows |-> rs]
              : rs \in SeqsUpTo(ShapeRecords(Len(h)), MaxShapeRows)}
           : h \in ShapeHeaders}

InitShapes ==
    /\ csv \in ShapeCsvFiles
    /\ max_rows = None
    /\ Fresh

NextShapes == ChunkedProcess

SpecShapes == InitShapes /\ [][NextShapes]_vars

----------------------------------------------------------------------------
(* Table read back: SimpleFDICRDFGenerator.process_csv, then
   generate_viewer_output, over header lines with an unnamed or a repeated
   column and values that are blank *)

MaxTableRows == 2

TableHeaders == {<<"NAME", "X">>, <<"", "X">>, <<"X", "X">>}

\* records of two fields that differ, one of them possibly empty or blank
TableRecords ==
    {<<<<"7">>, <<"8">>>>, <<<<"8">>, <<>>>>, <<<<>>, <<"7">>>>, <<<<" ">>, <<"7">>>>}

TableCsvFiles ==
    {[bom |-> FALSE, headers |-> h, rows |-> rs]
       : h \in TableHeaders, rs \in SeqsUpTo(TableRecords, MaxTableRows)}

InitTable ==
    /\ csv \in TableCsvFiles
    /\ max_rows \in {None, 1}
    /\ Fresh

NextTable == ViewerSimpleProcess \/ SimpleGenerateViewer

SpecTable == InitTable /\ [][NextTable]_vars

----------------------------------------------------------------------------
(* Missing files: conversions with or without the viewer template, the
   annotations file and the column mappings file *)

InitAbsent ==
    /\ csv \in RunFiles
    /\ max_rows = None
    /\ template \in BOOLEAN
    /\ Unstarted

NextAbsent ==
    \/ GraphProcess \/ SimpleProcess \/ ChunkedProcess
    \/ GraphGenerateViewer \/ SimpleGenerateViewer

SpecAbsent == InitAbsent /\ [][NextAbsent]_vars

----------------------------------------------------------------------------
(* One run of serve_viewer.py *)

\* what the directory argument may name: nothing, a file, or a directory
\* with or without manifest.json (valid or not) and index.html
ViewerDirs ==
    {[kind |-> "missing", files |-> {}, valid |-> FALSE],
     [kind |-> "file", files |-> {}, valid |-> FALSE]}
      \cup {[kind |-> "dir", files |-> fl, valid |-> v]
              : fl \in SUBSET {"manifest.json", "index.html", "page_0.json"},
                v \in BOOLEAN}

InitServe ==
    /\ NoConversion
    /\ conv = NoConv
    /\ fmt = NoFmt
    /\ serve \in {[NoServe EXCEPT !.pc = "args", !.host = h, !.port = p, !.no_browser = nb,
                                  !.fs = d, !.port_free = pf, !.cwd = "initial"]
                     : h \in {"localhost"}, p \in {8000, 9000}, nb \in BOOLEAN,
                       d \in {x \in ViewerDirs : x.valid => "manifest.json" \in x.files},
                       pf \in BOOLEAN}

\* python serve_viewer.py directory [--port p] [--host h] [--no-browser]
ServeMain ==
    /\ serve.pc = "args"
    /\ serve' = ServeMainOutcome(serve)
    /\ UNCHANGED <<csv, max_rows, rows_per_chunk, cm, ann, now, pc, variant, graph, result,
                   files, viewer, rows_per_page, job, calls, template, fmt, conv, log>>

\* Ctrl+C while serve_forever() runs: the socket is closed and main returns
ServeInterrupt ==
    /\ serve.pc = "serving"
    /\ serve' = [serve EXCEPT !.pc = "stopped", !.exit = 0, !.interrupted = TRUE,
                              !.closed = TRUE, !.printed = "Server stopped by user"]
    /\ UNCHANGED <<csv, max_rows, rows_per_chunk, cm, ann, now, pc, variant, graph, result,
                   files, viewer, rows_per_page, job, calls, template, fmt, conv, log>>

\* Ctrl+C after the checks, before serve_forever() runs
ServeInterruptEarly ==
    /\ serve.pc = "args"
    /\ ChecksPass(serve)
    /\ \E point \in InterruptPoints(serve), status \in {1, 130} :
         serve' = ServeInterruptedAt(serve, point, status)
    /\ UNCHANGED <<csv, max_rows, rows_per_chunk, cm, ann, now, pc, variant, graph, result,
                   files, viewer, rows_per_page, job, calls, template, fmt, conv, log>>

NextServe == ServeMain \/ ServeInterrupt \/ ServeInterruptEarly

SpecServe == InitServe /\ [][NextServe]_vars

----------------------------------------------------------------------------
(* Annotation round trip: yaml_to_ttl, then ttl_to_yaml on its output *)

MaxColumns == 3

\* column names: the empty one, and three whose escaped forms collide
\* ("a " and "a_" both give column_a_, whose first suffixed form column_a__1
\* is the escaped form of "a__1")
YamlNames == {<<>>, <<"a", " ">>, <<"a", "_">>, <<"a", "_", "_", "1">>}

NoComments == [kind |-> "absent", items |-> {}]

YamlColumnData ==
    {[label |-> <<>>, description |-> <<>>, data_type |-> <<>>, semantic_type |-> <<>>,
      mappings |-> <<>>, references |-> <<>>, comments |-> NoComments],
     [label |-> <<"Bank">>, description |-> <<"Name of the bank">>,
      data_type |-> <<"integer">>, semantic_type |-> <<>>,
      mappings |-> <<>>, references |-> <<>>, comments |-> NoComments],
     [label |-> <<"">>, description |-> <<>>, data_type |-> <<"date">>,
      semantic_type |-> <<"coordinate">>,
      mappings |-> <<>>, references |-> <<>>,
      comments |-> [kind |-> "str", items |-> {"c1"}]],
     [label |-> <<>>, description |-> <<"">>, data_type |-> <<"anyURI">>,
      semantic_type |-> <<>>,
      mappings |-> <<[property |-> Uri("schema:", "identifier"), relation |-> "equivalent"],
                     [property |-> Uri("schema:", "name"), relation |-> "broader"]>>,
      references |-> <<[kind |-> "url", uri |-> Uri("http://example.org/", "doc")],
                       [kind |-> "wikidata", uri |-> Uri(WikidataNs, "Q116907062")]>>,
      comments |-> [kind |-> "list", items |-> {"c1", "c2"}]]}

\* data['columns']: a dict, so names are pairwise distinct
YamlDocuments ==
    {[columns |-> cs]
       : cs \in {x \in SeqsUpTo([name : YamlNames, data : YamlColumnData], MaxColumns) :
                   \A i, j \in 1..Len(x) : x[i].name = x[j].name => i = j}}

InitConv ==
    /\ NoConversion
    /\ serve = NoServe
    /\ fmt = NoFmt
    /\ conv \in {[pc |-> "yaml", doc |-> d, ttl |-> {}, back |-> {}] : d \in YamlDocuments}

\* AnnotationConverter().yaml_to_ttl(yaml_path, ttl_path)
ConvYamlToTtl ==
    /\ conv.pc = "yaml"
    /\ conv' = [conv EXCEPT !.pc = "ttl", !.ttl = YamlToTtl(conv.doc)]
    /\ UNCHANGED <<csv, max_rows, rows_per_chunk, cm, ann, now, pc, variant, graph, result,
                   files, viewer, rows_per_page, job, calls, template, fmt, serve, log>>

\* AnnotationConverter().ttl_to_yaml(ttl_path, yaml_path) on the file just
\* written; the Turtle file holds the triples of the graph serialized into it
ConvTtlToYaml ==
    /\ conv.pc = "ttl"
    /\ conv' = [conv EXCEPT !.pc = "back", !.back = TtlToYaml(conv.ttl)]
    /\ UNCHANGED <<csv, max_rows, rows_per_chunk, cm, ann, now, pc, variant, graph, result,
                   files, viewer, rows_per_page, job, calls, template, fmt, serve, log>>

NextConv == ConvYamlToTtl \/ ConvTtlToYaml

SpecConv == InitConv /\ [][NextConv]_vars

----------------------------------------------------------------------------
(* One run of format_converter.py, and one FDICMappingConverter serving
   several calls *)

MappingDocuments ==
    {[columns |-> c] :
       c \in {<<>>,
              <<[name |-> "CERT", label |-> "a"]>>,
              <<[name |-> "NAME", label |-> "a"]>>,
              <<[name |-> "CERT", label |-> "b"]>>,
              <<[name |-> "CERT", label |-> "a"], [name |-> "NAME", label |-> "a"]>>}}

\* the command line: both formats, an input file that parses in its format
\* or does not, an output path that can be written or cannot
InitFormat ==
    /\ NoConversion
    /\ conv = NoConv
    /\ serve = NoServe
    /\ fmt \in {[NoFmt EXCEPT !.pc = "main", !.from = f, !.to = t,
                              !.input = [data |-> d, valid |-> v], !.writable = w]
                  : f \in Formats, t \in Formats, d \in MappingDocuments,
                    v \in BOOLEAN, w \in BOOLEAN}

\* python format_converter.py input output --from-format f --to-format t
FormatMain ==
    /\ fmt.pc = "main"
    /\ fmt' = MainDispatch(fmt)
    /\ UNCHANGED <<csv, max_rows, rows_per_chunk, cm, ann, now, pc, variant, graph, result,
                   files, viewer, rows_per_page, job, calls, template, conv, serve, log>>

NextFormat == FormatMain

SpecFormat == InitFormat /\ [][NextFormat]_vars

MaxConverterCalls == 2

\* converter = FDICMappingConverter()
InitInstance ==
    /\ NoConversion
    /\ conv = NoConv
    /\ serve = NoServe
    /\ fmt = [NoFmt EXCEPT !.pc = "instance"]

\* the instance after a call of the method on a file holding the document
InstanceCalled(method, data, r) ==
    /\ Len(fmt.calls) < MaxConverterCalls
    /\ fmt' = [fmt EXCEPT !.graph = r.graph, !.output = r.out,
                          !.calls = Append(@, [method |-> method, data |-> data,
                                               graph |-> r.graph, out |-> r.out])]
    /\ UNCHANGED <<csv, max_rows, rows_per_chunk, cm, ann, now, pc, variant, graph, result,
                   files, viewer, rows_per_page, job, calls, template, conv, serve, log>>

\* converter.ttl_to_dict(ttl_path)
InstanceTtlToDict ==
    /\ fmt.pc = "instance"
    /\ \E d \in MappingDocuments :
          InstanceCalled("ttl_to_dict", d, MappingTtlToDict(fmt.graph, [data |-> d, valid |-> TRUE]))

\* converter.yaml_to_ttl(yaml_path, ttl_path)
InstanceYamlToTtl ==
    /\ fmt.pc = "instance"
    /\ \E d \in MappingDocuments :
          InstanceCalled("yaml_to_ttl", d, MappingYamlToTtl(fmt.graph, [data |-> d, valid |-> TRUE]))

\* converter.jsonld_to_ttl(jsonld_path, ttl_path)
InstanceJsonldToTtl ==
    /\ fmt.pc = "instance"
    /\ \E d \in MappingDocuments :
          InstanceCalled("jsonld_to_ttl", d, MappingJsonldToTtl(fmt.graph, [data |-> d, valid |-> TRUE]))

NextInstance == InstanceTtlToDict \/ InstanceYamlToTtl \/ InstanceJsonldToTtl

SpecInstance == InitInstance /\ [][NextInstance]_vars

----------------------------------------------------------------------------
(* What a conversion produced, read back from its output *)

\* the value the file holds for data record i (0-based) under header field j
\* (1-based); nothing when the record is too short
SourceValue(f, i, j) ==
    IF j <= Len(f.rows[i + 1]) THEN f.rows[i + 1][j] ELSE <<>>

\* a value with a character that is not whitespace
HasText(v) == \E k \in 1..Len(v) : v[k] \notin Whitespace

\* triples written by CSV2RDF to full.ttl after the table metadata
FullLines == {files.full[k] : k \in 1..Len(files.full)}

\* every row and cell triple of the output
RowTriples(v, g, fl) ==
    IF v = "chunked" THEN {fl.full[k] : k \in 1..Len(fl.full)}
    ELSE {t \in g : t.s.k \in {"row", "cell"} \/ t.o.k = "row"}

\* the row index a row or cell triple belongs to
RowIndexOf(t) == IF t.s.k \in {"row", "cell"} THEN t.s.i ELSE t.o.i

RowClass(v) ==
    IF v = "graph" THEN Class("BankRecord")
    ELSE IF v = "simple" THEN Class("fdic:Row") ELSE Class("Row")

\* the Row resources of the output
RowResources(v, g, fl) == {t.s : t \in {u \in RowTriples(v, g, fl) : u.p = "rdf:type" /\ u.o = RowClass(v)}}

\* the row indices the output holds (the chunked converter keeps the index
\* in the row URI only)
RowIndices(v, g, fl) ==
    IF v = "chunked" THEN {r.i : r \in RowResources(v, g, fl)}
    ELSE {t.o.i : t \in {u \in g : u.p \in {"rowIndex", "fdic:rowIndex"}}}

\* the same CSV file processed by the same generator without a row limit
Uncapped ==
    IF variant = "graph" THEN GraphProcessCsv({}, csv, None, cm, now - 1, 1)
    ELSE IF variant = "simple" THEN SimpleProcessCsv({}, csv, None, ann, now - 1, 1)
    ELSE ChunkedProcessCsv({}, csv, None, rows_per_chunk,
                           IF ann.exists THEN ann.items ELSE <<>>, now - 1)

UncappedRowTriples ==
    IF variant = "chunked" THEN {Uncapped.full[k] : k \in 1..Len(Uncapped.full)}
    ELSE RowTriples(variant, Uncapped.g, files)

\* rows the run reached: the rows counted as processed and, when an
\* exception escaped, the row being written at that moment
Reached(i) ==
    \/ i < result.rows_processed
    \/ result.err # NoError /\ i = result.rows_processed

----------------------------------------------------------------------------
(* C1 *)

\* C1: for a row limit k with 0 <= k <= n, process_csv of any of the three
\* generators yields exactly k Row resources with indices 0..k-1, equal in
\* content to the first k rows of an uncapped run, and reports k rows.
C1_RowLimit ==
    (pc = "processed" /\ result.err = NoError
       /\ max_rows # None /\ max_rows <= Len(csv.rows))
    => /\ Cardinality(RowResources(variant, graph, files)) = max_rows
       /\ RowIndices(variant, graph, files) = 0..(max_rows - 1)
       /\ RowTriples(variant, graph, files)
            = {t \in UncappedRowTriples : RowIndexOf(t) < max_rows}
       /\ result.rows_processed = max_rows

\* the same statement for limits of at least one row
C1_PositiveLimit ==
    (pc = "processed" /\ result.err = NoError
       /\ max_rows # None /\ max_rows >= 1 /\ max_rows <= Len(csv.rows))
    => /\ Cardinality(RowResources(variant, graph, files)) = max_rows
       /\ RowIndices(variant, graph, files) = 0..(max_rows - 1)
       /\ RowTriples(variant, graph, files)
            = {t \in UncappedRowTriples : RowIndexOf(t) < max_rows}
       /\ result.rows_processed = max_rows

----------------------------------------------------------------------------
(* C2 *)

GraphCells == Subjects(graph, "rdf:type", Class("Cell"))

\* the Cell resource of the graph generator for row i and a header name:
\* typed Cell, named after the column and linked from the row by hasCell
GraphCellExists(i, name) ==
    /\ GraphCellUri(i, name) \in GraphCells
    /\ Triple(GraphCellUri(i, name), "columnName", NameLit(name)) \in graph
    /\ Triple(GraphRowUri(i), "hasCell", GraphCellUri(i, name)) \in graph

----------------------------------------------------------------------------
(* C3 *)

\* the (row index, column index) pairs for which the output holds a Cell
CellPairs ==
    IF variant = "simple"
    THEN {<<ri.i, ci.i>> :
            <<c, ri, ci>> \in {<<c2, r2, i2>> \in
                 Subjects(graph, "rdf:type", Class("fdic:Cell"))
                   \X {IntLit(i) : i \in 0..Len(csv.rows)}
                   \X {IntLit(j) : j \in 0..Len(csv.headers)} :
                 /\ \E r \in Objects(graph, c2, "fdic:inRow") :
                       Triple(r, "fdic:rowIndex", r2) \in graph
                 /\ \E col \in Objects(graph, c2, "fdic:inColumn") :
                       Triple(col, "fdic:columnIndex", i2) \in graph}}
    ELSE {<<r.i, col.i>> :
            <<c, r, col>> \in {<<c2, r2, col2>> \in
                 Subjects(FullLines, "rdf:type", Class("Cell"))
                   \X {ChunkedRowUri(i) : i \in 0..Len(csv.rows)}
                   \X {ChunkedColumnUri(j) : j \in 0..Len(csv.headers)} :
                 /\ Triple(c2, "hasRow", r2) \in FullLines
                 /\ Triple(c2, "hasColumn", col2) \in FullLines
                 /\ Triple(col2, "columnIndex", IntLit(col2.i)) \in graph}}

CellCount ==
    IF variant = "simple" THEN Cardinality(Subjects(graph, "rdf:type", Class("fdic:Cell")))
    ELSE Cardinality(Subjects(FullLines, "rdf:type", Class("Cell")))

\* the (row, column) pairs of the rows the run reached whose source value is
\* non-empty after trimming
NonEmptyPairs ==
    {<<i, j - 1>> : <<i, j>> \in {<<i2, j2>> \in (0..(Len(csv.rows) - 1)) \X (1..Len(csv.headers)) :
                                     Reached(i2) /\ HasText(SourceValue(csv, i2, j2))}}

\* C3: in the simplified generator and in the chunked converter a Cell is
\* created for a (row, column) pair if and only if the trimmed value is
\* non-empty, and the number of Cell resources equals the number of
\* non-empty values among the rows the run wrote.
C3_CellsAreNonEmptyValues ==
    (pc = "processed" /\ variant \in {"simple", "chunked"})
    => /\ CellPairs = NonEmptyPairs
       /\ CellCount = Cardinality(NonEmptyPairs)

\* a run of either generator over a row holding an empty value, a
\* whitespace-only value or no value next to a non-empty one
C3_Witness ==
    /\ pc = "processed" /\ variant \in {"simple", "chunked"}
    /\ CellCount >= 1
    /\ \E i \in 0..(result.rows_processed - 1) : \E j \in 1..Len(csv.headers) :
          /\ ~HasText(SourceValue(csv, i, j))
          /\ \E j2 \in 1..Len(csv.headers) : <<i, j2 - 1>> \in CellPairs

----------------------------------------------------------------------------
(* C4 *)

\* rows the viewer paginates: every data row of the CSV file for the graph
\* generator, the rows held by the graph for the simplified generator
ViewerRowCount ==
    IF variant = "graph" THEN Len(csv.rows) ELSE Cardinality(Subjects(graph, "rdf:type", Class("fdic:Row")))

\* C4: for n rows and a page size p >= 1, generate_viewer_output writes
\* exactly ceil(n/p) page files in ascending page index, whose inclusive
\* (start_row, end_row) ranges are contiguous, do not overlap and cover
\* exactly rows 0..n-1, every page but the last holding exactly p rows; the
\* manifest records the same total_rows and total_pages.
C4_Pagination ==
    (pc = "viewed" /\ viewer.error = "")
    => LET n == ViewerRowCount
           p == rows_per_page
           pages == viewer.pages
           k == Len(pages)
       IN  /\ viewer.manifest_written
           /\ viewer.total_rows = n
           /\ viewer.total_pages = k
           /\ (k - 1) * p < n /\ n <= k * p
           /\ \A q \in 1..k :
                 /\ pages[q].page = q - 1
                 /\ pages[q].start_row = (IF q = 1 THEN 0 ELSE pages[q - 1].end_row + 1)
                 /\ pages[q].start_row <= pages[q].end_row
                 /\ Len(pages[q].rows) = pages[q].end_row - pages[q].start_row + 1
                 /\ q < k => Len(pages[q].rows) = p
           /\ k > 0 => pages[k].end_row = n - 1

\* four rows paginated by three: a full page and a last page of one row
C4_Witness ==
    /\ pc = "viewed" /\ viewer.error = ""
    /\ ViewerRowCount = 4 /\ rows_per_page = 3
    /\ Len(viewer.pages) = 2
    /\ viewer.pages[2].start_row = 3 /\ viewer.pages[2].end_row = 3

----------------------------------------------------------------------------
(* C5 *)

\* the literal of the declared type for a value that parses as that type
TypedAs(d, v) ==
    IF d = "decimal" THEN FloatParses(v)
    ELSE IF d = "integer" THEN IntParses(v)
    ELSE TRUE

\* C5: for every non-empty cell value and every column mapping (coordinate
\* columns X, Y, LONGITUDE, LATITUDE included), adding the cell either
\* attaches a typed value of the declared type or, when parsing fails,
\* attaches no typed value while rawValue stays the source string; in
\* neither case does an error escape process_csv.
C5_TypedOrRawNoError ==
    (pc = "processed" /\ csv.headers[1] \in DOMAIN cm)
    => LET column == csv.headers[1]
           v == csv.rows[1][1]
           cell == GraphCellUri(0, column)
           d == cm[column].data_type
           typed == Objects(graph, cell, "typedValue")
       IN  /\ result.err = NoError
           /\ Objects(graph, cell, "rawValue") = {Lit(v)}
           /\ IF TypedAs(d, v)
              THEN /\ Cardinality(typed) = 1
                   /\ \A t \in typed : t.k = (IF d \in {"decimal", "integer"}
                                              THEN "xsd:" \o d ELSE "xsd:string")
              ELSE typed = {}

----------------------------------------------------------------------------
(* C6 *)

\* C6: for every list of input file paths (empty, without a .csv entry, or
\* whose CSV is malformed or unreadable) process_fdic_omg_job returns a
\* dictionary with the keys alerts and reports and propagates no exception.
C6_ReturnsAlertsAndReports ==
    job.done
    => /\ ~job.raised
       /\ {"alerts", "reports"} \subseteq DOMAIN job.returned

\* the adapter has returned for a CSV path that holds a file of zero bytes
C6_Witness ==
    /\ job.done /\ ~job.raised
    /\ job.generators = 1
    /\ job.disk.kind = "empty"
    /\ job.err = "TypeError"
    /\ Len(job.returned.alerts) = 1

----------------------------------------------------------------------------
(* C7 *)

\* a path whose last four characters are ".csv" in any letter case
EndsInCsv(path) ==
    /\ Len(path) >= 4
    /\ path[Len(path) - 3] = "."
    /\ path[Len(path) - 2] \in {"c", "C"}
    /\ path[Len(path) - 1] \in {"s", "S"}
    /\ path[Len(path)] \in {"v", "V"}

\* C7: when no element of input_files ends in '.csv' (case-insensitively)
\* the adapter returns exactly alerts = ['No CSV file found in input'] and
\* reports = [], constructs no generator and writes no file; otherwise the
\* CSV processed is the first such element in list order.
C7_NoCsvOrFirstCsv ==
    job.done
    => LET found == {i \in 1..Len(job.input_files) : EndsInCsv(job.input_files[i])}
       IN  IF found = {}
           THEN /\ job.returned = [alerts |-> <<"No CSV file found in input">>,
                                   reports |-> <<>>]
                /\ job.generators = 0
                /\ graph = {}
                /\ job.written = {}
           ELSE /\ job.generators = 1
                /\ \E i \in found :
                      /\ \A k \in found : i <= k
                      /\ job.csv_file = job.input_files[i]

\* the adapter has returned for two input paths neither of which ends in
\* .csv, one of them holding the letters csv
C7_Witness ==
    /\ job.done
    /\ job.input_files = <<<<"c", "s", "v">>, <<"n", ".", "t", "x", "t">>>>
    /\ job.returned.alerts = <<"No CSV file found in input">>
    /\ job.written = {}

----------------------------------------------------------------------------
(* C8 *)

\* C8: whenever generation, output saving or report writing raises inside
\* process_fdic_omg_job the returned value is exactly
\* alerts = ['Error processing FDIC CSV: <exception message>'], reports = [];
\* in every result, reports is non-empty only if alerts is empty.
C8_ErrorBecomesAlert ==
    (job.done /\ ~job.raised)
    => /\ job.err # NoError
          => job.returned = [alerts |-> <<"Error processing FDIC CSV: " \o Message(job.err)>>,
                             reports |-> <<>>]
       /\ job.returned.reports # <<>> => job.returned.alerts = <<>>

\* writing the data table failed after the RDF files and the HTML report
\* had been written, and the adapter returned the alert for it
C8_Witness ==
    /\ job.done
    /\ job.err = "OSError"
    /\ job.fault = "fdic_data_table.html"
    /\ "fdic_omg_report.html" \in job.written
    /\ job.returned.alerts = <<"Error processing FDIC CSV: No space left on device">>
    /\ job.returned.reports = <<>>

----------------------------------------------------------------------------
(* C9 *)

\* C9: invoked without a caller-supplied row limit, the job adapter
\* processes every data row of the CSV: rows_processed equals the number of
\* data rows of the file, for files of any length.
C9_EveryRowProcessed ==
    (job.done /\ job.generators = 1 /\ result.err = NoError)
    => result.rows_processed = Len(csv.rows)

----------------------------------------------------------------------------
(* C10 *)

SimpleTables == Subjects(graph, "rdf:type", Class("fdic:Table"))
SimpleColumns == Subjects(graph, "rdf:type", Class("fdic:Column"))
SimpleRows == Subjects(graph, "rdf:type", Class("fdic:Row"))
SimpleCells == Subjects(graph, "rdf:type", Class("fdic:Cell"))

\* C10: after process_csv on a fresh simplified generator the graph holds
\* exactly one Table, one Column per header with that header as columnName
\* and its 0-based position as columnIndex, one Row per processed row with
\* rowIndex 0..rows_processed-1, and every Cell is linked by inRow to exactly
\* one Row and by inColumn to the Column named after the header under which
\* its value was read.
C10_TableStructure ==
    (pc = "processed" /\ variant = "simple")
    => /\ Cardinality(SimpleTables) = 1
       /\ Cardinality(SimpleColumns) = Len(csv.headers)
       /\ \A j \in 1..Len(csv.headers) :
             Cardinality({c \in SimpleColumns :
                            /\ Objects(graph, c, "fdic:columnName") = {NameLit(csv.headers[j])}
                            /\ Objects(graph, c, "fdic:columnIndex") = {IntLit(j - 1)}}) = 1
       /\ Cardinality(SimpleRows) = result.rows_processed
       /\ \A i \in 0..(result.rows_processed - 1) :
             Cardinality({r \in SimpleRows :
                            Objects(graph, r, "fdic:rowIndex") = {IntLit(i)}}) = 1
       /\ \A c \in SimpleCells :
             /\ Cardinality(Objects(graph, c, "fdic:inRow")) = 1
             /\ Objects(graph, c, "fdic:inRow") \subseteq SimpleRows
             /\ Cardinality(Objects(graph, c, "fdic:inColumn")) = 1
             /\ Objects(graph, c, "fdic:inColumn") \subseteq SimpleColumns
             /\ \E j \in 1..Len(csv.headers) :
                   /\ NameLit(csv.headers[j])
                        \in Objects(graph, Value(graph, c, "fdic:inColumn"), "fdic:columnName")
                   /\ Objects(graph, c, "fdic:value")
                        = {Lit(SourceValue(csv,
                                 Value(graph, Value(graph, c, "fdic:inRow"), "fdic:rowIndex").i,
                                 j))}

\* a simplified run over two header fields and two rows that left a Cell in
\* the second column of the second row
C10_Witness ==
    /\ pc = "processed" /\ variant = "simple"
    /\ Len(csv.headers) = 2 /\ result.rows_processed = 2
    /\ \E c \in SimpleCells :
          /\ Value(graph, Value(graph, c, "fdic:inRow"), "fdic:rowIndex") = IntLit(1)
          /\ Value(graph, Value(graph, c, "fdic:inColumn"), "fdic:columnIndex") = IntLit(1)

----------------------------------------------------------------------------
(* C11 *)

\* the column names the output records: dcterms:title of the graph
\* generator's Column resources, columnName of the other two
ColumnNames ==
    {t.o.n : t \in {u \in graph :
                      \/ variant = "graph" /\ u.s.k = "column" /\ u.p = "dcterms:title"
                      \/ variant = "simple" /\ u.p = "fdic:columnName"
                                           /\ u.s \in Subjects(graph, "rdf:type", Class("fdic:Column"))
                      \/ variant = "chunked" /\ u.s.k = "column" /\ u.p = "columnName"}}

\* C11: whether or not the file starts with a UTF-8 byte-order mark, each
\* generator variant yields the header names of the content: the column
\* names of the output are the header names, and none carries the mark.
C11_BomIgnored ==
    (pc = "processed" /\ result.err = NoError)
    => ColumnNames = {csv.headers[i] : i \in 1..Len(csv.headers)}

----------------------------------------------------------------------------
(* C12 *)

\* the triples that carry no timestamp
NonTimestamp(g) == {t \in g : t.o.k # "xsd:dateTime"}

\* g with every blank node named by label
Relabel(g, label) ==
    {Triple(IF t.s.c = 0 THEN t.s ELSE [t.s EXCEPT !.c = label], t.p,
            IF t.o.c = 0 THEN t.o ELSE [t.o EXCEPT !.c = label]) : t \in g}

\* two calls, each on a fresh generator of the same kind, for the same file
SameConversionTwice ==
    /\ Len(calls) = 2
    /\ calls[1].fresh /\ calls[2].fresh
    /\ calls[1].variant = calls[2].variant
    /\ calls[1].csv = calls[2].csv

\* C12 as stated: two conversions of the same CSV content with the same
\* base URI, each on a fresh generator, yield identical sets of
\* non-timestamp triples, in every generator variant.
C12_IdenticalTriples ==
    SameConversionTwice
    => /\ NonTimestamp(calls[1].graph) = NonTimestamp(calls[2].graph)
       /\ calls[1].full = calls[2].full

\* C12, amended: the two sets of non-timestamp triples are identical once
\* the blank nodes of one run are given the names of the other; resources
\* identified by URIs, literals and links are identical as they stand.
C12_IdenticalUpToBlankNodes ==
    SameConversionTwice
    => /\ Relabel(NonTimestamp(calls[1].graph), calls[2].label) = NonTimestamp(calls[2].graph)
       /\ {t \in NonTimestamp(calls[1].graph) : t.s.c = 0 /\ t.o.c = 0}
            = {t \in NonTimestamp(calls[2].graph) : t.s.c = 0 /\ t.o.c = 0}
       /\ calls[1].full = calls[2].full

\* the simplified generator has converted a file with a data row twice and
\* the two graphs differ in more than their timestamps
C12_Witness ==
    /\ SameConversionTwice
    /\ calls[2].variant = "simple"
    /\ Len(calls[2].csv.rows) = 1
    /\ NonTimestamp(calls[1].graph) # NonTimestamp(calls[2].graph)

----------------------------------------------------------------------------
(* C16 *)

\* the graph a generator just constructed would hold after the last call
GraphOfLastCall ==
    LET c == calls[Len(calls)]
    IN  IF c.variant = "graph"
        THEN GraphProcessCsv({}, c.csv, max_rows, cm, c.at, c.label).g
        ELSE SimpleProcessCsv({}, c.csv, max_rows, ann, c.at, c.label).g

\* C16: the graph and the triples_generated count returned by a
\* process_csv call describe only the CSV processed by that call, also when
\* the same generator instance serves several calls.
C16_CallOwnsItsTriples ==
    (calls # <<>> /\ variant \in {"graph", "simple"})
    => /\ graph = GraphOfLastCall
       /\ result.triples_generated = Cardinality(GraphOfLastCall)

\* the columns of the document handed to yaml_to_ttl
YamlColumns == {conv.doc.columns[i] : i \in 1..Len(conv.doc.columns)}

\* C13: after yaml_to_ttl followed by ttl_to_yaml the document has the same
\* set of column names and, for each column, the same label, description and
\* data_type as the original.
C13_BasicFieldsRoundTrip ==
    conv.pc = "back"
    => /\ {e.name : e \in conv.back} = {c.name : c \in YamlColumns}
       /\ \A c \in YamlColumns : \A e \in conv.back :
             e.name = c.name
             => /\ e.data.label = c.data.label
                /\ e.data.description = c.data.description
                /\ e.data.data_type = c.data.data_type

\* a reference as the claim counts it: a URL string or a Wikidata id
ReferenceSet(references) ==
    {[wikidata |-> r.kind = "wikidata", uri |-> r.uri] : r \in references}

SeqRange(seq) == {seq[i] : i \in 1..Len(seq)}

\* C14: after yaml_to_ttl followed by ttl_to_yaml every column has the same
\* semantic type tag, the same comments, the same set of mappings (property
\* with relation) and the same set of references as the original.
C14_MappingFieldsRoundTrip ==
    conv.pc = "back"
    => \A c \in YamlColumns : \A e \in conv.back :
          e.name = c.name
          => /\ e.data.semantic_type = c.data.semantic_type
             /\ e.data.comments = c.data.comments
             /\ e.data.mappings = SeqRange(c.data.mappings)
             /\ ReferenceSet(e.data.references)
                  = ReferenceSet(SeqRange(c.data.references))

ColumnAnnotationResources ==
    Subjects(conv.ttl, "rdf:type", Uri("base:", "ColumnAnnotation"))

\* C17: the output of yaml_to_ttl holds exactly one ColumnAnnotation
\* resource per YAML column, each carrying one column name, and every
\* column's name is carried by exactly one resource.
C17_OneResourcePerColumn ==
    conv.pc \in {"ttl", "back"}
    => /\ Cardinality(ColumnAnnotationResources) = Len(conv.doc.columns)
       /\ \A u \in ColumnAnnotationResources :
             Cardinality(Objects(conv.ttl, u, "base:columnName")) = 1
       /\ \A c \in YamlColumns :
             Cardinality({u \in ColumnAnnotationResources :
                            Lit(c.name) \in Objects(conv.ttl, u, "base:columnName")}) = 1

\* three columns whose escaped names collide, so that the suffix loop runs
\* once for the second and once for the third
C17_Witness ==
    /\ conv.pc = "ttl"
    /\ Len(conv.doc.columns) = 3
    /\ conv.doc.columns[1].name = <<"a", " ">>
    /\ conv.doc.columns[2].name = <<"a", "_">>
    /\ conv.doc.columns[3].name = <<"a", "_", "_", "1">>
    /\ ColumnAnnotationUri(<<"c", "o", "l", "u", "m", "n", "_", "a", "_", "_", "1", "_", "1">>)
         \in ColumnAnnotationResources

\* the indices of the rows whose type line chunk file number j (from 0) holds
RowsOfChunk(j) ==
    {i \in 0..(Len(csv.rows) - 1) :
       \E k \in 1..Len(files.chunks[j + 1]) :
          files.chunks[j + 1][k] = Triple(ChunkedRowUri(i), "rdf:type", Class("Row"))}

ChunkNames ==
    <<"chunk_0000.ttl", "chunk_0001.ttl", "chunk_0002.ttl", "chunk_0003.ttl",
      "chunk_0004.ttl", "chunk_0005.ttl", "chunk_0006.ttl", "chunk_0007.ttl",
      "chunk_0008.ttl", "chunk_0009.ttl", "chunk_0010.ttl", "chunk_0011.ttl",
      "chunk_0012.ttl", "chunk_0013.ttl">>

\* C15: when CSV2RDF.process_csv returns after n rows with rows_per_chunk =
\* c, it has created the ceil(n/c) chunk files chunk_0000, chunk_0001, ...
\* in this order, row i is in chunk floor(i/c), every chunk but the last
\* holds c rows and none is empty, and table_manifest.json records
\* row_count = n and the chunk files in creation order.
C15_Chunks ==
    (pc = "processed" /\ variant = "chunked" /\ result.err = NoError)
    => /\ (Len(files.chunks) - 1) * rows_per_chunk < result.rows_processed
       /\ result.rows_processed <= Len(files.chunks) * rows_per_chunk
       /\ files.manifest.written
       /\ files.manifest.row_count = result.rows_processed
       /\ files.manifest.chunks = SubSeq(ChunkNames, 1, Len(files.chunks))
       /\ \A i \in 0..(result.rows_processed - 1) :
             \A j \in 0..(Len(files.chunks) - 1) :
                i \in RowsOfChunk(j) <=> j = i \div rows_per_chunk
       /\ \A j \in 0..(Len(files.chunks) - 1) :
             /\ RowsOfChunk(j) # {}
             /\ j < Len(files.chunks) - 1 => Cardinality(RowsOfChunk(j)) = rows_per_chunk

\* a run that fills several chunks and leaves the last one short
C15_Witness ==
    /\ pc = "processed" /\ variant = "chunked" /\ result.err = NoError
    /\ rows_per_chunk = 2
    /\ result.rows_processed = 5
    /\ Len(files.chunks) = 3
    /\ RowsOfChunk(2) = {4}

\* C18: SimpleFDICRDFGenerator.generate_viewer_output on a graph without
\* Table resource returns the error "No table data found" and writes
\* neither manifest.json nor a page file.
C18_NoTableNoViewer ==
    (pc = "viewed" /\ variant = "simple"
       /\ Subjects(graph, "rdf:type", Class("fdic:Table")) = {})
    => /\ viewer.error = "No table data found"
       /\ ~viewer.manifest_written
       /\ viewer.pages = <<>>

\* generate_viewer_output called on a generator that has converted nothing
C18_Witness ==
    /\ pc = "viewed" /\ variant = "simple"
    /\ graph = {}
    /\ viewer.error = "No table data found"

\* C19: a conversion that finds no viewer template, no annotations file or
\* no column mappings file logs the condition and still completes:
\* process_csv returns normally with every row converted, the graph (and the
\* chunked converter's manifest) is produced, and only the viewer copy or
\* the enrichment is left out.
C19_AbsentFilesTolerated ==
    pc = "processed"
    => /\ result.err = NoError
       /\ result.rows_processed = Len(csv.rows)
       /\ graph # {}
       /\ variant = "chunked"
            => /\ files.manifest.written
               /\ files.manifest.row_count = Len(csv.rows)
       /\ (variant = "chunked" /\ ~template)
            => /\ "Viewer template not found" \in log
               /\ files.viewer_dir.files = {}
       /\ (variant \in {"chunked", "simple"} /\ ~ann.exists)
            => "Annotations file not found" \in log
       /\ (variant = "graph" /\ cm = NoColumnMappings)
            => "Column mappings file not found" \in log

\* the directory argument fails one of the checks of main
ViewerDirInvalid ==
    \/ serve.fs.kind # "dir"
    \/ "manifest.json" \notin serve.fs.files
    \/ "index.html" \notin serve.fs.files

\* C20: when the directory argument does not exist, is not a directory or
\* lacks manifest.json or index.html, serve_viewer exits with status 1
\* without binding a socket and without changing the working directory; a
\* server exists only for a directory that passes all the checks.
C20_ValidatedBeforeServing ==
    /\ (serve.pc # "args" /\ ViewerDirInvalid)
         => /\ serve.pc = "exited"
            /\ serve.exit = 1
            /\ ~serve.bound
            /\ serve.cwd = "initial"
    /\ serve.bound => ~ViewerDirInvalid

\* a directory that holds manifest.json but no index.html, and a free port
C20_Witness ==
    /\ serve.pc = "exited"
    /\ serve.fs.kind = "dir"
    /\ serve.fs.files = {"manifest.json", "page_0.json"}
    /\ serve.fs.valid
    /\ serve.port_free
    /\ serve.exit = 1

\* C21: a keyboard interrupt that arrives after the checks have passed
\* closes the listening socket and ends main without an error, and a
\* startup that fails with an OS error ends the process with status 1.
C21_InterruptEndsCleanly ==
    /\ (serve.interrupted /\ ChecksPass(serve))
         => /\ serve.pc = "stopped"
            /\ serve.exit = 0
            /\ serve.closed
    /\ (serve.pc # "args" /\ ~serve.interrupted /\ ChecksPass(serve)
          /\ serve.fs.valid /\ ~serve.port_free)
         => /\ serve.pc = "exited"
            /\ serve.exit = 1
            /\ ~serve.bound

\* the cells of the chunked output: subjects of a hasColumn line of full.ttl
ChunkedCells == {t.s : t \in {u \in FullLines : u.p = "hasColumn"}}

\* the objects of the lines of full.ttl with subject s and predicate p
FullObjects(s, p) == {t.o : t \in {u \in FullLines : u.s = s /\ u.p = p}}

\* C22: in CSV2RDF output every Cell's hasColumn link targets a Column of
\* the table metadata whose index is the index of the header under which
\* the cell's value stands in the CSV record and whose columnName is that
\* header, whatever the header list and the record lengths.
C22_CellColumnIsSourceColumn ==
    (pc = "processed" /\ variant = "chunked")
    => \A c \in ChunkedCells :
          /\ c.j < Len(csv.headers)
          /\ FullObjects(c, "hasColumn") = {ChunkedColumnUri(c.j)}
          /\ Triple(ChunkedColumnUri(c.j), "rdf:type", Class("Column")) \in graph
          /\ Triple(ChunkedColumnUri(c.j), "columnName", NameLit(csv.headers[c.j + 1]))
                \in graph
          /\ FullObjects(c, "hasValue")
                = {ChunkedValueLiteral(SourceValue(csv, c.i, c.j + 1))}

\* the lines of the chunk files, one after the other in creation order
RECURSIVE ChunkLinesFrom(_)
ChunkLinesFrom(k) ==
    IF k > Len(files.chunks) THEN <<>> ELSE files.chunks[k] \o ChunkLinesFrom(k + 1)

\* the chunk files that hold a line about row i
ChunksOfRow(i) ==
    {k \in 1..Len(files.chunks) :
       \E n \in 1..Len(files.chunks[k]) :
          RowIndexOf(files.chunks[k][n]) = i}

\* C23: when CSV2RDF.process_csv ends, the row and cell lines of full.ttl
\* are the lines of the chunk files in the same order, and the lines of a
\* row are all in one chunk file.
C23_FullIsChunksInOrder ==
    (pc = "processed" /\ variant = "chunked")
    => /\ files.full = ChunkLinesFrom(1)
       /\ \A i \in 0..(Len(csv.rows) - 1) : Cardinality(ChunksOfRow(i)) <= 1
       /\ \A i \in 0..(result.rows_processed - 1) : Cardinality(ChunksOfRow(i)) = 1

\* two rows of cells, each row in a chunk file of its own
C23_Witness ==
    /\ pc = "processed" /\ variant = "chunked"
    /\ rows_per_chunk = 1
    /\ result.rows_processed = 2
    /\ Len(files.chunks) = 2
    /\ Len(files.chunks[2]) > 1

HeadersDistinct ==
    \A j, k \in 1..Len(csv.headers) : csv.headers[j] = csv.headers[k] => j = k

\* C24: CSV2RDF writes exactly one hasValue line for every materialized
\* cell: an xsd:integer when int() accepts the source value, else an
\* xsd:decimal when float() accepts it, else the plain string.
C24_OneTypedValuePerCell ==
    (pc = "processed" /\ variant = "chunked" /\ HeadersDistinct)
    => \A c \in ChunkedCells :
          /\ Cardinality({n \in 1..Len(files.full) :
                            files.full[n].s = c /\ files.full[n].p = "hasValue"}) = 1
          /\ \A o \in FullObjects(c, "hasValue") :
                LET value == SourceValue(csv, c.i, c.j + 1)
                IN  IF IntParses(value) THEN o.k = "xsd:integer" /\ o.i = IntValue(value)
                    ELSE IF FloatParses(value)
                    THEN o.k = "xsd:decimal" /\ o = DecLit(FloatValue(value))
                    ELSE o = Lit(value)

\* a record with a string, a decimal, a blank and an integer next to one
\* of integers only
C24_Witness ==
    /\ pc = "processed" /\ variant = "chunked" /\ HeadersDistinct
    /\ \E c1, c2, c3 \in ChunkedCells :
          /\ FullObjects(c1, "hasValue") = {Lit(<<"x">>)}
          /\ \E o \in FullObjects(c2, "hasValue") : o.k = "xsd:decimal"
          /\ FullObjects(c3, "hasValue") = {IntLit(2)}

----------------------------------------------------------------------------
(* C25 *)

\* the rows of the page files, one page after the other
RECURSIVE ViewerRowsFrom(_)
ViewerRowsFrom(q) ==
    IF q > Len(viewer.pages) THEN <<>>
    ELSE viewer.pages[q].rows \o ViewerRowsFrom(q + 1)

\* C25: the viewer data SimpleFDICRDFGenerator.generate_viewer_output
\* reconstructs from the graph reproduces the processed CSV: the headers
\* are the CSV header list in order, the rows come in ascending row index,
\* and each position holds the source value of that row and column (the
\* empty string where the source value is empty).
C25_ViewerReproducesCsv ==
    (pc = "viewed" /\ variant = "simple" /\ viewer.error = "")
    => /\ viewer.headers = csv.headers
       /\ ViewerRowsFrom(1)
            = [i \in 1..result.rows_processed |->
                 [j \in 1..Len(csv.headers) |-> StrVal(SourceValue(csv, i - 1, j))]]
----------------------------------------------------------------------------
(* C26 *)

\* the ColumnAnnotation resources of the graph that carry the column's name
MatchingAnnotations(col) ==
    {a \in Subjects(graph, "rdf:type", Class("fdic:ColumnAnnotation")) :
       Objects(graph, a, "fdic:columnName") = Objects(graph, col, "fdic:columnName")}

----------------------------------------------------------------------------
(* C27 *)

\* C27: for every pair of input and output format among ttl, yaml and
\* jsonld, main of format_converter either writes the output file or ends
\* with an error; it never reports "Conversion complete" without having
\* written the output.
C27_CompleteMeansWritten ==
    fmt.pc \in {"returned", "failed"}
    => /\ fmt.complete => fmt.written
       /\ ~fmt.complete => fmt.error # ""

----------------------------------------------------------------------------
(* C28 *)

\* the triples a call parsed from its input file or added for it
InputTriples(call) ==
    IF call.method = "jsonld_to_ttl" THEN JsonldTriples(call.data)
    ELSE TurtleTriples(call.data)

\* C28: the graph of an FDICMappingConverter is never cleared: after any
\* sequence of ttl_to_dict, yaml_to_ttl and jsonld_to_ttl calls on one
\* instance the graph holds every triple an earlier call parsed or added,
\* and the output of each call includes the data of all earlier inputs.
C28_GraphAccumulates ==
    fmt.pc = "instance"
    => /\ \A k \in 1..Len(fmt.calls) : \A j \in 1..k :
             /\ InputTriples(fmt.calls[j]) \subseteq fmt.calls[k].graph
             /\ fmt.calls[k].out.format = "ttl"
                   => InputTriples(fmt.calls[j]) \subseteq fmt.calls[k].out.triples
             /\ fmt.calls[k].out.format = "dict"
                   => \A c \in DataColumns(fmt.calls[j].data) :
                         \E e \in fmt.calls[k].out.columns : e.name = c.name
       /\ Len(fmt.calls) > 0 => fmt.graph = fmt.calls[Len(fmt.calls)].graph

\* a document about CERT read from Turtle, then one about NAME converted
\* from YAML: the Turtle file written for the second holds CERT as well
C28_Witness ==
    /\ fmt.pc = "instance"
    /\ Len(fmt.calls) = 2
    /\ fmt.calls[1].method = "ttl_to_dict"
    /\ fmt.calls[1].data.columns = <<[name |-> "CERT", label |-> "b"]>>
    /\ fmt.calls[2].method = "yaml_to_ttl"
    /\ fmt.calls[2].data.columns = <<[name |-> "NAME", label |-> "a"]>>
    /\ Triple(MappingColumnUri("CERT"), "rdfs:label", LangLit("b")) \in fmt.output.triples
----------------------------------------------------------------------------
(* C29 *)

\* C29: every row link and cell link of the data table the job adapter
\* writes addresses a resource of the graph of the same run: the row and
\* cell URIs built for the table are the URIs the generator gave that row
\* and that cell.
C29_TableLinksInGraph ==
    (job.done /\ "fdic_data_table.html" \in job.written)
    => job.links \subseteq GeneratorUris(graph)

----------------------------------------------------------------------------
(* C30 *)

\* the label the report is to show for an ontology reference
ExpectedOntologyName(ontology_ref) ==
    IF Contains(ontology_ref, <<"g", "e", "o", "n", "a", "m", "e", "s">>) THEN "GeoNames"
    ELSE IF Contains(ontology_ref, <<"g", "e", "o">>) THEN "GeoSPARQL"
    ELSE "FIBO"

\* C30: in the HTML report of the job adapter a column whose ontology
\* reference contains 'geonames' is labelled GeoNames, one whose reference
\* contains 'geo' but not 'geonames' is labelled GeoSPARQL, and every other
\* column is labelled FIBO.
C30_OntologyLabels ==
    job.report.pc = "written"
    => \A c \in DOMAIN job.report.column_mappings :
          \E row \in job.report.rows :
             /\ row.column = c
             /\ row.ontology = ExpectedOntologyName(job.report.column_mappings[c].ontology_ref)

====
